---- MODULE Spec2Model ----
(***************************************************************************)
(* Model of the streaming primitives of the AI SDK.                        *)
(*                                                                         *)
(* Part 1: packages/core/rsc/streamable.tsx, createStreamableUI and        *)
(* createStreamableValue.  One cell is created per behaviour (`kind` says  *)
(* by which factory); its closure variables are the state, every method of *)
(* the returned object is one action, and the promises the closure         *)
(* allocates live in the heap `promises`, referenced by index.             *)
(***************************************************************************)
EXTENDS Integers, Sequences, FiniteSets, TLC

(***************************************************************************)
(* Bounds of the model.                                                    *)
(***************************************************************************)
\* largest number of revisions one cell publishes through update/append
MaxRevisions == 2
\* DEV_DEFAULT_STREAMABLE_WARNING_TIME, counted in clock ticks
WarningTicks == 2


(***************************************************************************)
(* JavaScript values.  A value is a record: `type` is what typeof answers, *)
(* `chars` the characters of a string (empty for every other type).  Two   *)
(* records are equal exactly when the values are === in JavaScript: the    *)
(* one object of the model is one reference.                               *)
(***************************************************************************)
undefined == [type |-> "undefined", chars |-> <<>>]

Str(s) == [type |-> "string", chars |-> s]

\* the strings the cell is fed: "", "a", "ab" and "b" give every case of
\* startsWith (equal, proper prefix, longer, unrelated)
Strings == {Str(<<>>), Str(<<"a">>), Str(<<"a", "b">>), Str(<<"b">>)}

Values == Strings \cup {undefined}

\* what error(error: any) is called with
Errors == {undefined, [type |-> "Error", chars |-> <<>>]}

\* done(...args: [] | [T]): the argument list
DoneArgs == {<<>>} \cup {<<v>> : v \in Values}

\* String.prototype.startsWith
startsWith(s, prefix) ==
    /\ Len(prefix) <= Len(s)
    /\ SubSeq(s, 1, Len(prefix)) = prefix

\* String.prototype.slice(start), start within the string
slice(s, start) == SubSeq(s, start + 1, Len(s))

\* String.prototype.slice(0, end)
sliceTo(s, end) == SubSeq(s, 1, IF end < Len(s) THEN end ELSE Len(s))

VARIABLES
    kind,               \* "ui": createStreamableUI, "value": createStreamableValue
    dev,                \* process.env.NODE_ENV === 'development'
    closed,             \* let closed
    currentValue,       \* let currentValue
    promises,           \* every promise the cell has created, in creation order
    resolve,            \* UI: the promise `resolve`/`reject` settle; value: `resolvable`
    currentError,       \* value cell: let currentError
    currentPromise,     \* value cell: let currentPromise (0: undefined)
    currentPatchValue,  \* value cell: let currentPatchValue (<<>>: undefined)
    warningTimeout,     \* "undefined", "armed", "fired" or "cleared"
    idle,               \* ticks since the warning timer was (re)started
    warnings,           \* has console.warn been called
    call,               \* the last method call and what it threw
    produced,           \* codec: what was put on the wire, chunk by chunk
    delivered,          \* codec: how many characters the transport has delivered
    events,             \* codec: the events the decoder has returned so far
    chunk,              \* codec: the chunk the decoder was called with last
    api,                \* useChat: "string" (an endpoint) or "action" (a server action)
    maxRoundtrips,      \* useChat: experimental_maxAutomaticRoundtrips
    messages,           \* useChat: the message list in the SWR cache
    messagesRef,        \* useChat: messagesRef.current
    isLoading,          \* useChat: the loading flag in the SWR cache
    chatError,          \* useChat: the error in the SWR cache
    abortControllerRef, \* useChat: abortControllerRef.current, 0 for null
    aborted,            \* useChat: the controllers in use that abort() was called on
    cycles,             \* useChat: the triggerRequest calls, in dispatch order
    roundtrips,         \* useChat: automatic dispatches since the caller's last
    onErrorCalls,       \* useChat: how many times onError was called
    onFinishCalls,      \* useChat: the messages onFinish was called with, in order
    streamData,         \* useChat: the data array in the SWR cache
    existingData,       \* useChat: the streamData that triggerRequest closed over
    stream,             \* render: the text chunks of the provider's response
    pos,                \* render: how many of them onText was called with
    content,            \* render: let content
    final,              \* render: has onFinal been called
    textCalls,          \* render: the arguments of every call of the text renderer
    composed,           \* render: how many times onText called updateComposedUI
    options,            \* render: which of options.functions and options.tools are given
    rendered,           \* render: "no", "thrown" or "returned": how the call ended
    requested,          \* render: has provider.chat.completions.create been called
    toolEvent,          \* render: the call the response holds: "none", "function",
                        \* "tools", or "handled" once its callback has run
    cells,              \* render: the StreamableUIContext of every UI cell
    toolCalls,          \* adapter: const toolCalls, by index (OpenAI, regular mode)
    enqueued,           \* adapter: the parts given to controller.enqueue, in order
    transformed,        \* adapter: how many chunks transform was called with
    upstreamClosed      \* adapter: has the provider's response ended

cellVars == <<kind, dev, closed, currentValue, promises, resolve, currentError,
              currentPromise, currentPatchValue>>
timerVars == <<warningTimeout, idle, warnings>>
codecVars == <<produced, delivered, events, chunk>>
\* the variables of the other parts of the model, which a cell never touches
dataVars == <<onErrorCalls, streamData, existingData, onFinishCalls>>
chatVars == <<api, maxRoundtrips, messages, messagesRef, isLoading, chatError,
              abortControllerRef, aborted, cycles, roundtrips, dataVars>>

\* a data array of the SWR cache; NoData is the undefined of an empty cache
Data(items) == [defined |-> TRUE, items |-> items]
NoData == [defined |-> FALSE, items |-> <<>>]
renderVars == <<stream, pos, content, final, textCalls, composed, options, rendered,
                requested, toolEvent, cells>>
adapterVars == <<toolCalls, enqueued, transformed, upstreamClosed>>
notCellVars == <<codecVars, chatVars, renderVars, adapterVars>>
vars == <<cellVars, timerVars, call, codecVars, chatVars, renderVars, adapterVars>>

\* the UI cells of render(): the composed UI, the text, the function call
\* and the calls of two tools
Contexts == {"composed", "text", "function", "tool1", "tool2"}

\* a context that does not exist.  Of one that does: `value` is the node the
\* cell shows (0: the initial one), `started` the number of renders started,
\* `pending` the renders whose promise is not settled, `awaiting` whether
\* onFinal awaits its `finished`, read when `upTo` renders were started,
\* `threw` whether a method of the cell threw.
NoCell == [created |-> FALSE, value |-> 0, closed |-> FALSE, started |-> 0,
           pending |-> {}, awaiting |-> FALSE, upTo |-> 0, doneCalls |-> 0,
           threw |-> FALSE]

\* render() is not called
RenderIdle ==
    /\ stream = <<>>
    /\ pos = 0
    /\ content = <<>>
    /\ final = FALSE
    /\ textCalls = <<>>
    /\ composed = 0
    /\ options = [functions |-> FALSE, tools |-> FALSE]
    /\ rendered = "no"
    /\ requested = FALSE
    /\ toolEvent = "none"
    /\ cells = [ctx \in Contexts |-> NoCell]

\* toolCalls[index] == null
NoToolCall == [type |-> "null", chars |-> <<>>]

\* the indexes of the tool calls of one response
ToolCallIndexes == {0, 1}

\* doStream is not called
AdapterIdle ==
    /\ toolCalls = [index \in ToolCallIndexes |-> NoToolCall]
    /\ enqueued = <<>>
    /\ transformed = 0
    /\ upstreamClosed = FALSE

\* no stream exists
CodecIdle ==
    /\ produced = <<>>
    /\ delivered = 0
    /\ events = <<>>
    /\ chunk = <<>>

\* no hook is mounted
ChatIdle ==
    /\ api = "string"
    /\ maxRoundtrips = 0
    /\ messages = <<>>
    /\ messagesRef = <<>>
    /\ isLoading = FALSE
    /\ chatError = "undefined"
    /\ abortControllerRef = 0
    /\ aborted = {}
    /\ cycles = <<>>
    /\ roundtrips = 0
    /\ onErrorCalls = 0
    /\ onFinishCalls = <<>>
    /\ streamData = NoData
    /\ existingData = NoData

(***************************************************************************)
(* Promises.                                                               *)
(***************************************************************************)
pending == [state |-> "pending"]

\* createResolvablePromise(): a new pending promise at the end of the heap
createResolvablePromise(heap) == Append(heap, pending)

\* resolve(value) of promise p: a promise settles once
Fulfil(heap, p, value) ==
    IF heap[p].state = "pending"
    THEN [heap EXCEPT ![p] = [state |-> "fulfilled", value |-> value]]
    ELSE heap

\* reject(reason) of promise p
Reject(heap, p, reason) ==
    IF heap[p].state = "pending"
    THEN [heap EXCEPT ![p] = [state |-> "rejected", reason |-> reason]]
    ELSE heap

NoCall == [method |-> "none", thrown |-> <<>>]
Returned(method) == [method |-> method, thrown |-> <<>>]

(***************************************************************************)
(* The idle warning, shared by both factories.                             *)
(***************************************************************************)
\* warnUnclosedStream(): (re)start the timer, in development only
warnUnclosedStream ==
    IF dev
    THEN /\ warningTimeout' = "armed"
         /\ idle' = 0
         /\ UNCHANGED warnings
    ELSE UNCHANGED timerVars

\* mutant of clearWarning: clearTimeout is forgotten
clearWarning_KeepsTimer == UNCHANGED timerVars

\* if (warningTimeout) clearTimeout(warningTimeout)
clearWarning ==
    /\ warningTimeout' = IF warningTimeout = "armed" THEN "cleared" ELSE warningTimeout
    /\ UNCHANGED <<idle, warnings>>

\* time passes while the timer is armed
Tick ==
    /\ warningTimeout = "armed"
    /\ idle < WarningTicks
    /\ idle' = idle + 1
    /\ UNCHANGED <<cellVars, warningTimeout, warnings, call>>

\* the setTimeout callback: console.warn(...)
WarnCallback ==
    /\ warningTimeout = "armed"
    /\ idle = WarningTicks
    /\ warningTimeout' = "fired"
    /\ warnings' = TRUE
    /\ UNCHANGED <<cellVars, idle, call>>

(***************************************************************************)
(* createStreamableUI                                                      *)
(***************************************************************************)
\* mutant of UIassertStream: the closed flag is not consulted
UIassertStream_NeverThrows(method) == <<>>

\* assertStream(method) of the UI cell: what it throws (<<>>: nothing)
UIassertStream(method) ==
    IF closed THEN <<method, ": UI stream is already closed.">> ELSE <<>>

Throw(method, error) ==
    /\ call' = [method |-> method, thrown |-> error]
    /\ UNCHANGED <<cellVars, timerVars>>

\* mutant of UIupdate: no reference-equality short-circuit
UIupdate_NoShortCircuit(value) ==
    /\ kind = "ui"
    /\ IF closed
       THEN /\ call' = [method |-> ".update()",
                        thrown |-> <<".update()", ": UI stream is already closed.">>]
            /\ UNCHANGED <<cellVars, timerVars>>
       ELSE /\ Len(promises) <= MaxRevisions
            /\ currentValue' = value
            /\ promises' = createResolvablePromise(
                   Fulfil(promises, resolve,
                          [value |-> value, done |-> FALSE, next |-> Len(promises) + 1]))
            /\ resolve' = Len(promises) + 1
            /\ warnUnclosedStream
            /\ call' = Returned(".update()")
            /\ UNCHANGED <<kind, dev, closed, currentError, currentPromise,
                           currentPatchValue>>

UIupdate(value) ==
    /\ kind = "ui"
    /\ IF UIassertStream(".update()") # <<>>
       THEN Throw(".update()", UIassertStream(".update()"))
       ELSE IF value = currentValue
       THEN /\ warnUnclosedStream
            /\ call' = Returned(".update()")
            /\ UNCHANGED cellVars
       ELSE /\ Len(promises) <= MaxRevisions
            /\ currentValue' = value
            /\ promises' = createResolvablePromise(
                   Fulfil(promises, resolve,
                          [value |-> value, done |-> FALSE, next |-> Len(promises) + 1]))
            /\ resolve' = Len(promises) + 1
            /\ warnUnclosedStream
            /\ call' = Returned(".update()")
            /\ UNCHANGED <<kind, dev, closed, currentError, currentPromise,
                           currentPatchValue>>

\* mutant of UIappend: `resolve = resolvable.resolve` is forgotten, so the
\* resolvers keep pointing at the promise that was just settled
UIappend_KeepsResolver(value) ==
    /\ kind = "ui"
    /\ IF closed
       THEN /\ call' = [method |-> ".append()",
                        thrown |-> <<".append()", ": UI stream is already closed.">>]
            /\ UNCHANGED <<cellVars, timerVars>>
       ELSE /\ Len(promises) <= MaxRevisions
            /\ currentValue' = value
            /\ promises' = createResolvablePromise(
                   Fulfil(promises, resolve,
                          [value |-> value, done |-> FALSE, append |-> TRUE,
                           next |-> Len(promises) + 1]))
            /\ warnUnclosedStream
            /\ call' = Returned(".append()")
            /\ UNCHANGED <<kind, dev, closed, resolve, currentError, currentPromise,
                           currentPatchValue>>

\* mutant of UIappend: `currentValue = value` is forgotten
UIappend_KeepsCurrentValue(value) ==
    /\ kind = "ui"
    /\ IF closed
       THEN /\ call' = [method |-> ".append()",
                        thrown |-> <<".append()", ": UI stream is already closed.">>]
            /\ UNCHANGED <<cellVars, timerVars>>
       ELSE /\ Len(promises) <= MaxRevisions
            /\ promises' = createResolvablePromise(
                   Fulfil(promises, resolve,
                          [value |-> value, done |-> FALSE, append |-> TRUE,
                           next |-> Len(promises) + 1]))
            /\ resolve' = Len(promises) + 1
            /\ warnUnclosedStream
            /\ call' = Returned(".append()")
            /\ UNCHANGED <<kind, dev, closed, currentValue, currentError,
                           currentPromise, currentPatchValue>>

\* append(value): no reference-equality short-circuit
UIappend(value) ==
    /\ kind = "ui"
    /\ IF UIassertStream(".append()") # <<>>
       THEN Throw(".append()", UIassertStream(".append()"))
       ELSE /\ Len(promises) <= MaxRevisions
            /\ currentValue' = value
            /\ promises' = createResolvablePromise(
                   Fulfil(promises, resolve,
                          [value |-> value, done |-> FALSE, append |-> TRUE,
                           next |-> Len(promises) + 1]))
            /\ resolve' = Len(promises) + 1
            /\ warnUnclosedStream
            /\ call' = Returned(".append()")
            /\ UNCHANGED <<kind, dev, closed, currentError, currentPromise,
                           currentPatchValue>>

\* mutant of UIerror: `closed = true` is forgotten
UIerror_StaysOpen(error) ==
    /\ kind = "ui"
    /\ IF closed
       THEN /\ call' = [method |-> ".error()",
                        thrown |-> <<".error()", ": UI stream is already closed.">>]
            /\ UNCHANGED <<cellVars, timerVars>>
       ELSE /\ clearWarning
            /\ promises' = Reject(promises, resolve, error)
            /\ call' = Returned(".error()")
            /\ UNCHANGED <<kind, dev, closed, currentValue, resolve, currentError,
                           currentPromise, currentPatchValue>>

UIerror(error) ==
    /\ kind = "ui"
    /\ IF UIassertStream(".error()") # <<>>
       THEN Throw(".error()", UIassertStream(".error()"))
       ELSE /\ clearWarning
            /\ closed' = TRUE
            /\ promises' = Reject(promises, resolve, error)
            /\ call' = Returned(".error()")
            /\ UNCHANGED <<kind, dev, currentValue, resolve, currentError,
                           currentPromise, currentPatchValue>>

\* mutant of UIdoneRevision: the final value is ignored
UIdoneRevision_IgnoresFinal(args) == [value |-> currentValue, done |-> TRUE]

\* the revision done(...args) resolves the open tail with
UIdoneRevision(args) ==
    IF Len(args) # 0
    THEN [value |-> args[1], done |-> TRUE]
    ELSE [value |-> currentValue, done |-> TRUE]

UIdone(args) ==
    /\ kind = "ui"
    /\ IF UIassertStream(".done()") # <<>>
       THEN Throw(".done()", UIassertStream(".done()"))
       ELSE /\ clearWarning
            /\ closed' = TRUE
            /\ promises' = Fulfil(promises, resolve, UIdoneRevision(args))
            /\ call' = Returned(".done()")
            /\ UNCHANGED <<kind, dev, currentValue, resolve, currentError,
                           currentPromise, currentPatchValue>>

(***************************************************************************)
(* createStreamableValue                                                   *)
(***************************************************************************)
\* assertStream(method) of the value cell
SVassertStream(method) ==
    IF closed THEN <<method, ": Value stream is already closed.">> ELSE <<>>

\* mutant of createWrapped: the patch is preferred for the initial chunk too
createWrapped_PatchFirst(initialChunk, cError, cPatchValue, cValue, cPromise) ==
    LET init == IF cError # undefined
                THEN [error |-> cError]
                ELSE IF cPatchValue # <<>>
                     THEN [diff |-> cPatchValue]
                     ELSE [curr |-> cValue]
        withNext == IF cPromise # 0
                    THEN init @@ [next |-> cPromise]
                    ELSE init
    IN  IF initialChunk
        THEN withNext @@ [type |-> "STREAMABLE_VALUE_TYPE"]
        ELSE withNext

\* createWrapped(initialChunk), reading the closure variables as given
createWrapped(initialChunk, cError, cPatchValue, cValue, cPromise) ==
    LET init == IF cError # undefined
                THEN [error |-> cError]
                ELSE IF cPatchValue # <<>> /\ ~initialChunk
                     THEN [diff |-> cPatchValue]
                     ELSE [curr |-> cValue]
        withNext == IF cPromise # 0
                    THEN init @@ [next |-> cPromise]
                    ELSE init
    IN  IF initialChunk
        THEN withNext @@ [type |-> "STREAMABLE_VALUE_TYPE"]
        ELSE withNext

\* mutant of patchFor: the whole new string is sent as the suffix
patchFor_WholeValue(value, previous) ==
    IF /\ value.type = "string"
       /\ previous.type = "string"
       /\ startsWith(value.chars, previous.chars)
    THEN <<0, value.chars>>
    ELSE <<>>

\* mutant of patchFor: `currentPatchValue = undefined` is forgotten, so the
\* patch of an earlier update survives an update that computes none
patchFor_Stale(value, previous) ==
    IF /\ value.type = "string"
       /\ previous.type = "string"
       /\ startsWith(value.chars, previous.chars)
    THEN <<0, slice(value.chars, Len(previous.chars))>>
    ELSE currentPatchValue

\* updateValueStates(value): the new currentPatchValue
patchFor(value, previous) ==
    IF /\ value.type = "string"
       /\ previous.type = "string"
       /\ startsWith(value.chars, previous.chars)
    THEN <<0, slice(value.chars, Len(previous.chars))>>
    ELSE <<>>

updateValueStates(value) ==
    /\ currentPatchValue' = patchFor(value, currentValue)
    /\ currentValue' = value

\* get value()
SVvalue == createWrapped(TRUE, currentError, currentPatchValue, currentValue,
                         currentPromise)

\* mutant of SVupdate: the UI cell's reference-equality short-circuit is
\* copied into the value cell
SVupdate_ShortCircuit(value) ==
    /\ kind = "value"
    /\ IF closed
       THEN /\ call' = [method |-> ".update()",
                        thrown |-> <<".update()", ": Value stream is already closed.">>]
            /\ UNCHANGED <<cellVars, timerVars>>
       ELSE IF value = currentValue
       THEN /\ warnUnclosedStream
            /\ call' = Returned(".update()")
            /\ UNCHANGED cellVars
       ELSE /\ Len(promises) <= MaxRevisions
            /\ resolve' = Len(promises) + 1
            /\ currentPatchValue' =
                   (IF /\ value.type = "string"
                       /\ currentValue.type = "string"
                       /\ startsWith(value.chars, currentValue.chars)
                    THEN <<0, slice(value.chars, Len(currentValue.chars))>>
                    ELSE <<>>)
            /\ currentValue' = value
            /\ currentPromise' = Len(promises) + 1
            /\ promises' = Fulfil(createResolvablePromise(promises), resolve,
                                  createWrapped(FALSE, currentError, currentPatchValue',
                                                currentValue', currentPromise'))
            /\ warnUnclosedStream
            /\ call' = Returned(".update()")
            /\ UNCHANGED <<kind, dev, closed, currentError>>

SVupdate(value) ==
    /\ kind = "value"
    /\ IF SVassertStream(".update()") # <<>>
       THEN Throw(".update()", SVassertStream(".update()"))
       ELSE /\ Len(promises) <= MaxRevisions
            /\ resolve' = Len(promises) + 1
            /\ updateValueStates(value)
            /\ currentPromise' = Len(promises) + 1
            /\ promises' = Fulfil(createResolvablePromise(promises), resolve,
                                  createWrapped(FALSE, currentError, currentPatchValue',
                                                currentValue', currentPromise'))
            /\ warnUnclosedStream
            /\ call' = Returned(".update()")
            /\ UNCHANGED <<kind, dev, closed, currentError>>

SVerror(error) ==
    /\ kind = "value"
    /\ IF SVassertStream(".error()") # <<>>
       THEN Throw(".error()", SVassertStream(".error()"))
       ELSE /\ clearWarning
            /\ closed' = TRUE
            /\ currentError' = error
            /\ currentPromise' = 0
            /\ promises' = Fulfil(promises, resolve, [error |-> error])
            /\ call' = Returned(".error()")
            /\ UNCHANGED <<kind, dev, currentValue, resolve, currentPatchValue>>

SVdone(args) ==
    /\ kind = "value"
    /\ IF SVassertStream(".done()") # <<>>
       THEN Throw(".done()", SVassertStream(".done()"))
       ELSE /\ clearWarning
            /\ closed' = TRUE
            /\ currentPromise' = 0
            /\ IF Len(args) # 0
               THEN /\ updateValueStates(args[1])
                    /\ promises' = Fulfil(promises, resolve,
                                          createWrapped(FALSE, currentError,
                                                        currentPatchValue',
                                                        currentValue', currentPromise'))
               ELSE /\ promises' = Fulfil(promises, resolve, <<>>)
                    /\ UNCHANGED <<currentValue, currentPatchValue>>
            /\ call' = Returned(".done()")
            /\ UNCHANGED <<kind, dev, resolve, currentError>>

(***************************************************************************)
(* The cell right after its factory returned.                              *)
(***************************************************************************)
\* createStreamableUI(initialValue): row is the chunk suspended on promise 1
InitUI ==
    /\ kind = "ui"
    /\ currentValue \in Values
    /\ promises = <<pending>>
    /\ resolve = 1
    /\ currentError = undefined
    /\ currentPromise = 0
    /\ currentPatchValue = <<>>

\* createStreamableValue(initialValue)
InitValue ==
    /\ kind = "value"
    /\ currentValue \in Values
    /\ promises = <<pending>>
    /\ resolve = 1
    /\ currentError = undefined
    /\ currentPromise = 1
    /\ currentPatchValue = <<>>

InitCell ==
    /\ dev \in BOOLEAN
    /\ closed = FALSE
    /\ (InitUI \/ InitValue)
    /\ warningTimeout = (IF dev THEN "armed" ELSE "undefined")
    /\ idle = 0
    /\ warnings = FALSE
    /\ call = NoCall

Init ==
    /\ InitCell
    /\ CodecIdle
    /\ ChatIdle
    /\ RenderIdle
    /\ AdapterIdle

Next ==
    \/ \E value \in Values : UIupdate(value) /\ UNCHANGED notCellVars
    \/ \E value \in Values : UIappend(value) /\ UNCHANGED notCellVars
    \/ \E error \in Errors : UIerror(error) /\ UNCHANGED notCellVars
    \/ \E args \in DoneArgs : UIdone(args) /\ UNCHANGED notCellVars
    \/ \E value \in Values : SVupdate(value) /\ UNCHANGED notCellVars
    \/ \E error \in Errors : SVerror(error) /\ UNCHANGED notCellVars
    \/ \E args \in DoneArgs : SVdone(args) /\ UNCHANGED notCellVars
    \/ Tick /\ UNCHANGED notCellVars
    \/ WarnCallback /\ UNCHANGED notCellVars

Spec == Init /\ [][Next]_vars

(***************************************************************************)
(* The revision chain an observer of the cell walks: from the first        *)
(* promise, along the `next` references of the revisions published so far. *)
(***************************************************************************)
RECURSIVE ChainOf(_, _)
ChainOf(heap, p) ==
    IF heap[p].state # "fulfilled"
    THEN <<>>
    ELSE <<heap[p].value>> \o
         (IF "next" \in DOMAIN heap[p].value
          THEN ChainOf(heap, heap[p].value.next)
          ELSE <<>>)

Chain == ChainOf(promises, 1)

Unresolved == {p \in DOMAIN promises : promises[p].state = "pending"}

\* a call of any method of the cell
AnyCall ==
    \/ \E value \in Values : UIupdate(value) \/ UIappend(value) \/ SVupdate(value)
    \/ \E error \in Errors : UIerror(error) \/ SVerror(error)
    \/ \E args \in DoneArgs : UIdone(args) \/ SVdone(args)

AlreadyClosed ==
    IF kind = "ui" THEN ": UI stream is already closed."
    ELSE ": Value stream is already closed."

(***************************************************************************)
(* C1: on a closed cell (after done() or error()), every call of update,   *)
(* append, error or done throws the "already closed" Error, publishes no   *)
(* revision and leaves the current value, the closed flag, the open tail   *)
(* and the timer as they were.                                             *)
(***************************************************************************)
C1_ClosedCellRejectsCalls ==
    [][(closed /\ AnyCall) =>
          /\ call'.thrown = <<call'.method, AlreadyClosed>>
          /\ UNCHANGED <<cellVars, timerVars>>]_vars

C1_Witness ==
    /\ closed
    /\ call.method = ".update()"
    /\ call.thrown # <<>>

(***************************************************************************)
(* C2: the promises of a cell form one chain: every promise but the last   *)
(* is resolved with a revision whose `next` is the promise created right   *)
(* after it, and the last one is the only unresolved promise while the     *)
(* cell is open (the open tail the resolvers point at); once the cell is   *)
(* closed the last one is settled too, with no `next`, and nothing is      *)
(* unresolved.                                                             *)
(***************************************************************************)
C2_OneOpenTail ==
    /\ Cardinality(Unresolved) <= 1
    /\ resolve = Len(promises)
    /\ \A p \in 1..(Len(promises) - 1) :
          /\ promises[p].state = "fulfilled"
          /\ "next" \in DOMAIN promises[p].value
          /\ promises[p].value.next = p + 1
    /\ ~closed => Unresolved = {Len(promises)}
    /\ closed =>
          /\ Unresolved = {}
          /\ promises[Len(promises)].state = "fulfilled" =>
                "next" \notin DOMAIN promises[Len(promises)].value

C2_Witness ==
    /\ Len(promises) = 3
    /\ Unresolved = {3}
    /\ "append" \in DOMAIN promises[2].value

(***************************************************************************)
(* C3 as stated: on an open cell every update call, whatever its argument, *)
(* grows the revision chain by exactly one revision.                       *)
(***************************************************************************)
C3_EveryUpdateGrowsChain ==
    [][\A value \in Values :
          (~closed /\ (UIupdate(value) \/ SVupdate(value))) =>
              Len(ChainOf(promises', 1)) = Len(Chain) + 1]_vars

(***************************************************************************)
(* C3 amended: on an open cell an update call grows the revision chain by  *)
(* exactly one revision, except the UI cell's update with an argument      *)
(* identical to the current value, which publishes nothing.                *)
(***************************************************************************)
C3_UpdateGrowsChainUnlessIdentical ==
    [][\A value \in Values :
          (~closed /\ (UIupdate(value) \/ SVupdate(value))) =>
              IF kind = "ui" /\ value = currentValue
              THEN ChainOf(promises', 1) = Chain
              ELSE /\ Len(ChainOf(promises', 1)) = Len(Chain) + 1
                   /\ SubSeq(ChainOf(promises', 1), 1, Len(Chain)) = Chain]_vars

C3_Witness ==
    /\ kind = "value"
    /\ ~closed
    /\ call = Returned(".update()")
    /\ Len(Chain) = 2
    /\ Chain[1] = [next |-> 2] @@ Chain[2]

(***************************************************************************)
(* The consumer's patch application as the specification words it:         *)
(* local = local.slice(0, offset) + suffix.                                *)
(***************************************************************************)
applyPatch(local, patch) == sliceTo(local, patch[1]) \o patch[2]

\* value is a string that extends the string the cell holds
ExtendsCurrent(value) ==
    /\ value.type = "string"
    /\ currentValue.type = "string"
    /\ startsWith(value.chars, currentValue.chars)

(***************************************************************************)
(* C4 as stated: for strings a, b where b starts with a, the patch         *)
(* (offset, suffix) computed for the update a -> b, applied to a as        *)
(* a.slice(0, offset) + suffix, yields b.                                  *)
(***************************************************************************)
C4_PatchAppliedAtOffsetYieldsNew ==
    [][\A value \in Values :
          (~closed /\ ExtendsCurrent(value) /\ SVupdate(value)) =>
              applyPatch(currentValue.chars, currentPatchValue') = value.chars]_vars

(***************************************************************************)
(* C4 amended: for strings a, b where b starts with a, the patch computed  *)
(* for the update a -> b is (0, b.slice(a.length)): its first component is *)
(* the constant 0, not an offset, and a followed by the suffix is b.       *)
(***************************************************************************)
C4_PatchAppendedYieldsNew ==
    [][\A value \in Values :
          (~closed /\ ExtendsCurrent(value) /\ SVupdate(value)) =>
              /\ Len(currentPatchValue') = 2
              /\ currentPatchValue'[1] = 0
              /\ currentValue.chars \o currentPatchValue'[2] = value.chars]_vars

C4_Witness ==
    /\ kind = "value"
    /\ call = Returned(".update()")
    /\ currentValue = Str(<<"a", "b">>)
    /\ currentPatchValue = <<0, <<"b">>>>

(***************************************************************************)
(* C5: update(v) of the value cell publishes a patch exactly when v and    *)
(* the previous value are both strings and v starts with the previous      *)
(* value; in every other case the published revision carries the full new  *)
(* value and no patch.                                                     *)
(***************************************************************************)
C5_PatchExactlyForExtensions ==
    [][\A value \in Values :
          (~closed /\ SVupdate(value)) =>
              promises'[resolve] =
                  [state |-> "fulfilled",
                   value |->
                      IF ExtendsCurrent(value)
                      THEN [diff |-> <<0, slice(value.chars, Len(currentValue.chars))>>,
                            next |-> Len(promises) + 1]
                      ELSE [curr |-> value, next |-> Len(promises) + 1]]]_vars

C5_Witness ==
    /\ kind = "value"
    /\ Len(Chain) = 2
    /\ "diff" \in DOMAIN Chain[1]
    /\ "curr" \in DOMAIN Chain[2]
    /\ Chain[2].curr.type = "string"

\* the final value of done(...args), or the last known value
FinalOrCurrent(args) == IF Len(args) # 0 THEN args[1] ELSE currentValue

\* the revision carries x as its (full) value
Carries(rev, x) ==
    \/ "value" \in DOMAIN rev /\ rev.value = x
    \/ "curr" \in DOMAIN rev /\ rev.curr = x

(***************************************************************************)
(* C6 as stated: done(final) on an open cell of either variant closes it   *)
(* and resolves the open tail with a revision that carries the final value *)
(* (the last known value when none is given), is marked done and has no    *)
(* `next`.                                                                 *)
(***************************************************************************)
C6_DoneCarriesValueAndDoneFlag ==
    [][\A args \in DoneArgs :
          (~closed /\ (UIdone(args) \/ SVdone(args))) =>
              /\ closed'
              /\ promises'[resolve].state = "fulfilled"
              /\ Carries(promises'[resolve].value, FinalOrCurrent(args))
              /\ "done" \in DOMAIN promises'[resolve].value
              /\ promises'[resolve].value.done
              /\ "next" \notin DOMAIN promises'[resolve].value]_vars

(***************************************************************************)
(* C6 amended: done(final) on an open cell closes it and resolves the open *)
(* tail with a revision that has no `next`, creating no promise.  The UI   *)
(* cell's revision is {value, done: true} with the final value, or the     *)
(* last known value when none is given.  The value cell's revision has no  *)
(* done flag: it is {curr: final}, or {diff: [0, suffix]} when final       *)
(* extends the last string value, and the empty object when no final value *)
(* is given.                                                               *)
(***************************************************************************)
C6_DoneResolvesTerminalRevision ==
    [][\A args \in DoneArgs :
          (~closed /\ (UIdone(args) \/ SVdone(args))) =>
              /\ closed'
              /\ promises' =
                    [promises EXCEPT ![resolve] =
                        [state |-> "fulfilled",
                         value |->
                            IF kind = "ui"
                            THEN [value |-> FinalOrCurrent(args), done |-> TRUE]
                            ELSE IF Len(args) = 0
                            THEN <<>>
                            ELSE IF ExtendsCurrent(args[1])
                            THEN [diff |-> <<0, slice(args[1].chars,
                                                      Len(currentValue.chars))>>]
                            ELSE [curr |-> args[1]]]]]_vars

C6_Witness ==
    /\ kind = "ui"
    /\ closed
    /\ call = Returned(".done()")
    /\ Len(Chain) = 2
    /\ Chain[2].done
    /\ Chain[2].value # currentValue

(***************************************************************************)
(* C7 as stated: error(err) on an open cell of either variant closes it    *)
(* and rejects the open tail with err.                                     *)
(***************************************************************************)
C7_ErrorRejectsTail ==
    [][\A error \in Errors :
          (~closed /\ (UIerror(error) \/ SVerror(error))) =>
              /\ closed'
              /\ promises' = [promises EXCEPT ![resolve] =
                                 [state |-> "rejected", reason |-> error]]]_vars

(***************************************************************************)
(* C7 amended: error(err) on an open cell closes it and settles the open   *)
(* tail, creating no promise: the UI cell rejects the tail with err; the   *)
(* value cell resolves the tail with the revision {error: err}, which has  *)
(* no `next`, and keeps err as its current error.                          *)
(***************************************************************************)
C7_ErrorSettlesTail ==
    [][\A error \in Errors :
          (~closed /\ (UIerror(error) \/ SVerror(error))) =>
              /\ closed'
              /\ promises' =
                    [promises EXCEPT ![resolve] =
                        IF kind = "ui"
                        THEN [state |-> "rejected", reason |-> error]
                        ELSE [state |-> "fulfilled", value |-> [error |-> error]]]
              /\ kind = "value" => currentError' = error /\ currentPromise' = 0]_vars

C7_Witness ==
    /\ kind = "ui"
    /\ closed
    /\ call = Returned(".error()")
    /\ promises[resolve].state = "rejected"
    /\ Len(promises) = 2

(***************************************************************************)
(* C8: update(v) of the UI cell with v identical to the current value      *)
(* publishes nothing and leaves the cell as it was, restarting only the    *)
(* idle-warning timer; the value cell publishes a revision for such a v.   *)
(***************************************************************************)
C8_IdenticalUpdateIsNoOpForUIOnly ==
    [][(~closed /\ (UIupdate(currentValue) \/ SVupdate(currentValue))) =>
          IF kind = "ui"
          THEN /\ UNCHANGED cellVars
               /\ call' = Returned(".update()")
               /\ UNCHANGED warnings
               /\ IF dev
                  THEN warningTimeout' = "armed" /\ idle' = 0
                  ELSE UNCHANGED <<warningTimeout, idle>>
          ELSE /\ Len(promises') = Len(promises) + 1
               /\ Len(ChainOf(promises', 1)) = Len(Chain) + 1]_vars

C8_Witness ==
    /\ kind = "ui"
    /\ ~closed
    /\ call = Returned(".update()")
    /\ Len(promises) = 1
    /\ dev
    /\ warningTimeout = "armed"
    /\ idle = 0
    /\ warnings

(***************************************************************************)
(* C9: append(v) on an open UI cell publishes exactly one revision, which  *)
(* carries v and the append flag, and makes v the current value: an        *)
(* argument-less done() right after it would publish v.                    *)
(***************************************************************************)
C9_AppendPublishesAndAdvances ==
    [][\A value \in Values :
          (~closed /\ UIappend(value)) =>
              /\ ChainOf(promises', 1) =
                    Chain \o <<[value |-> value, done |-> FALSE, append |-> TRUE,
                                next |-> Len(promises) + 1]>>
              /\ currentValue' = value
              /\ UIdoneRevision(<<>>)' = [value |-> value, done |-> TRUE]]_vars

C9_Witness ==
    /\ kind = "ui"
    /\ ~closed
    /\ call = Returned(".update()")
    /\ Len(Chain) = 1
    /\ "append" \in DOMAIN Chain[1]
    /\ Chain[1].value = currentValue

\* the open tail was settled by done(), not by error()
ClosedByDone ==
    /\ closed
    /\ promises[resolve].state = "fulfilled"
    /\ "error" \notin DOMAIN promises[resolve].value

(***************************************************************************)
(* C10: the `.value` of a value cell carries a `next` reference exactly    *)
(* while the cell is open, and that reference is the open tail; once the   *)
(* cell is closed by done it is the snapshot {curr: latest value} with no  *)
(* `next`, where the latest value is the final value given to done, or     *)
(* else the last value the cell held.                                      *)
(***************************************************************************)
C10_ValueHasNextIffOpen ==
    /\ [](kind = "value" =>
            /\ "next" \in DOMAIN SVvalue <=> ~closed
            /\ ~closed => SVvalue.next = resolve /\ Unresolved = {SVvalue.next}
            /\ ClosedByDone => DOMAIN SVvalue = {"curr", "type"})
    /\ [][\A args \in DoneArgs :
            (~closed /\ SVdone(args)) =>
                SVvalue' = [curr |-> FinalOrCurrent(args),
                            type |-> "STREAMABLE_VALUE_TYPE"]]_vars

C10_Witness ==
    /\ kind = "value"
    /\ ClosedByDone
    /\ currentPatchValue # <<>>
    /\ SVvalue = [curr |-> Str(<<"a", "b">>), type |-> "STREAMABLE_VALUE_TYPE"]

(***************************************************************************)
(* The idle warning under fair scheduling: the clock advances and a due    *)
(* timeout callback runs (the event loop is fair to timers); method calls  *)
(* are up to the caller.  The cell starts from undefined and is fed two    *)
(* values, which is all the timer can tell apart.                          *)
(***************************************************************************)
TimerValues == {undefined, Str(<<"a">>)}

InitTimer ==
    /\ Init
    /\ currentValue = undefined

NextTimer ==
    \/ \E value \in TimerValues : UIupdate(value) /\ UNCHANGED notCellVars
    \/ \E value \in TimerValues : UIappend(value) /\ UNCHANGED notCellVars
    \/ \E error \in Errors : UIerror(error) /\ UNCHANGED notCellVars
    \/ UIdone(<<>>) /\ UNCHANGED notCellVars
    \/ \E value \in TimerValues : SVupdate(value) /\ UNCHANGED notCellVars
    \/ \E error \in Errors : SVerror(error) /\ UNCHANGED notCellVars
    \/ SVdone(<<>>) /\ UNCHANGED notCellVars
    \/ Tick /\ UNCHANGED notCellVars
    \/ WarnCallback /\ UNCHANGED notCellVars

SpecTimer ==
    /\ InitTimer
    /\ [][NextTimer]_vars
    /\ WF_vars(Tick /\ UNCHANGED notCellVars)
    /\ WF_vars(WarnCallback /\ UNCHANGED notCellVars)

\* a call of update or append that publishes or restarts the timer
UpdateOrAppend ==
    \E value \in Values : UIupdate(value) \/ UIappend(value) \/ SVupdate(value)

(***************************************************************************)
(* C11 as stated: a cell that is left open eventually surfaces the         *)
(* warning: unless the caller keeps calling methods for ever, an open cell *)
(* is eventually warned about (or closed).                                 *)
(***************************************************************************)
C11_OpenCellEventuallyWarns ==
    \/ []<><<AnyCall>>_vars
    \/ [](~closed => <>(warningTimeout = "fired" \/ closed))

(***************************************************************************)
(* C11 amended: in a development build (NODE_ENV === 'development') a cell *)
(* that is left open eventually surfaces the warning, each update/append   *)
(* on the open cell restarts the idle period, nothing is emitted once the  *)
(* cell is closed, and the warning changes nothing of the cell; in any     *)
(* other build no warning is ever emitted.                                 *)
(***************************************************************************)
C11_DevOpenCellEventuallyWarns ==
    /\ \/ []<><<AnyCall>>_vars
       \/ []((dev /\ ~closed) => <>(warningTimeout = "fired" \/ closed))
    /\ [][(dev /\ ~closed /\ UpdateOrAppend) =>
             (warningTimeout' = "armed" /\ idle' = 0)]_vars
    /\ [][closed => UNCHANGED timerVars]_vars
    /\ [][WarnCallback => (~closed /\ UNCHANGED <<cellVars, call>>)]_vars
    /\ [](~dev => (~warnings /\ warningTimeout = "undefined"))

C11_Witness ==
    /\ dev
    /\ ~closed
    /\ warningTimeout = "fired"
    /\ warnings
    /\ call = Returned(".update()")


-----------------------------------------------------------------------------
\* The line protocol: AssistantResponse.ts writes lines, the complex chunk
\* decoder of shared/utils.ts reads them.  Text is a sequence of characters,
\* one string per character; every character of the model is one byte, so the
\* TextDecoder of utils.ts:23 maps bytes to characters one to one.

\* how many chunks are put on the wire
MaxChunks == 2

NL == "\n"
Q == "\""
BS == "\\"
Whitespace == {" ", NL}

\* JSON values: a string, or an object with one key holding a string.  Keys
\* are abbreviated to one letter: s(tatus), i(d).
JStr(chars) == [t |-> "string", s |-> chars]
JObj(key, chars) == [t |-> "object", k |-> key, s |-> chars]
SyntaxError == [t |-> "SyntaxError"]

RECURSIVE escape(_)
escape(chars) ==
    IF chars = <<>> THEN <<>>
    ELSE (CASE Head(chars) = NL -> <<BS, "n">>
            [] Head(chars) = Q -> <<BS, Q>>
            [] Head(chars) = BS -> <<BS, BS>>
            [] OTHER -> <<Head(chars)>>) \o escape(Tail(chars))

\* the characters of a string literal's body, or a SyntaxError
RECURSIVE unescape(_)
unescape(text) ==
    IF text = <<>> THEN JStr(<<>>)
    ELSE IF Head(text) = BS
    THEN IF Len(text) < 2 \/ text[2] \notin {"n", Q, BS} THEN SyntaxError
         ELSE LET rest == unescape(SubSeq(text, 3, Len(text)))
              IN  IF rest = SyntaxError THEN SyntaxError
                  ELSE JStr(<<IF text[2] = "n" THEN NL ELSE text[2]>> \o rest.s)
    ELSE IF Head(text) \in {Q, NL} THEN SyntaxError
    ELSE LET rest == unescape(Tail(text))
         IN  IF rest = SyntaxError THEN SyntaxError ELSE JStr(<<Head(text)>> \o rest.s)

JSONstringify(value) ==
    IF value.t = "string" THEN <<Q>> \o escape(value.s) \o <<Q>>
    ELSE <<"{", Q, value.k, Q, ":", Q>> \o escape(value.s) \o <<Q, "}">>

RECURSIVE trimStart(_)
trimStart(text) ==
    IF text # <<>> /\ Head(text) \in Whitespace THEN trimStart(Tail(text)) ELSE text

RECURSIVE trimEnd(_)
trimEnd(text) ==
    IF text # <<>> /\ text[Len(text)] \in Whitespace
    THEN trimEnd(SubSeq(text, 1, Len(text) - 1)) ELSE text

parseString(text) ==
    IF Len(text) >= 2 /\ text[1] = Q /\ text[Len(text)] = Q
    THEN unescape(SubSeq(text, 2, Len(text) - 1))
    ELSE SyntaxError

JSONparse(text) ==
    LET t == trimEnd(trimStart(text))
    IN  IF t # <<>> /\ t[1] = Q THEN parseString(t)
        ELSE IF /\ Len(t) >= 8
                /\ t[1] = "{" /\ t[2] = Q /\ t[3] \notin {Q, BS, NL} /\ t[4] = Q
                /\ t[5] = ":" /\ t[Len(t)] = "}"
        THEN LET member == parseString(SubSeq(t, 6, Len(t) - 1))
             IN  IF member = SyntaxError THEN SyntaxError ELSE JObj(t[3], member.s)
        ELSE SyntaxError

\* String.prototype.indexOf: 0 stands for the -1 of "not found"
indexOf(text, c) ==
    IF \E i \in 1..Len(text) : text[i] = c
    THEN CHOOSE i \in 1..Len(text) : text[i] = c /\ \A j \in 1..(i - 1) : text[j] # c
    ELSE 0

\* String.prototype.split with a one-character separator
RECURSIVE split(_, _)
split(text, sep) ==
    LET i == indexOf(text, sep)
    IN  IF i = 0 THEN <<text>>
        ELSE <<SubSeq(text, 1, i - 1)>> \o split(SubSeq(text, i + 1, Len(text)), sep)

endsWith(text, suffix) ==
    /\ Len(suffix) <= Len(text)
    /\ SubSeq(text, Len(text) - Len(suffix) + 1, Len(text)) = suffix

\* the prefix table of the wire format
StreamStringPrefixes ==
    [assistant_message |-> "0", function_call |-> "1", data |-> "2",
     status |-> "3", thread_id |-> "4", tool_calls |-> "5",
     message_annotations |-> "6", tool_call_delta |-> "7"]

KnownPrefixes == {<<StreamStringPrefixes[type]>> : type \in DOMAIN StreamStringPrefixes}

\* what a line without an event is mapped to (a falsy value)
NoEvent == [type |-> "none"]

\* one line to at most one event: the characters up to the first colon are
\* looked up in the prefix table, the rest is parsed as JSON
parseStreamPart(line) ==
    LET firstSeparatorIndex == indexOf(line, ":")
        prefix == SubSeq(line, 1, firstSeparatorIndex - 1)
        jsonValue == JSONparse(SubSeq(line, firstSeparatorIndex + 1, Len(line)))
    IN  IF firstSeparatorIndex = 0 THEN NoEvent
        ELSE IF prefix \notin KnownPrefixes THEN NoEvent
        ELSE IF jsonValue = SyntaxError THEN NoEvent
        ELSE [type |-> prefix[1], value |-> jsonValue]

\* mutant of decodeChunk: what parseStreamPart returns is not filtered
decodeChunk_NoFilter(bytes) ==
    LET decoded == SelectSeq(split(bytes, NL), LAMBDA line : line # <<>>)
    IN  [i \in 1..Len(decoded) |-> parseStreamPart(decoded[i])]

\* the function createChunkDecoder(true) returns
decodeChunk(bytes) ==
    LET decoded == SelectSeq(split(bytes, NL), LAMBDA line : line # <<>>)
        parts == [i \in 1..Len(decoded) |-> parseStreamPart(decoded[i])]
    IN  SelectSeq(parts, LAMBDA part : part # NoEvent)

isStreamStringEqualToType(type, value) ==
    /\ startsWith(value, <<StreamStringPrefixes[type], ":">>)
    /\ endsWith(value, <<NL>>)

\* mutant of encodeStatus: no colon after the prefix
encodeStatus_NoSeparator(status) == <<"3", " ">> \o JSONstringify(status) \o <<NL, NL>>

\* mutant of encodeThreadId: no terminator
encodeThreadId_NoTerminator(threadId) == <<"4", ":", " ">> \o JSONstringify(threadId)

\* the template literals of sendStatus, sendThreadId and sendMessage
encodeStatus(status) == <<"3", ":", " ">> \o JSONstringify(status) \o <<NL, NL>>
encodeThreadId(threadId) == <<"4", ":", " ">> \o JSONstringify(threadId) \o <<NL, NL>>
encodeMessage(message) == <<"0", ":", " ">> \o JSONstringify(message) \o <<NL, NL>>

\* the payloads handed to AssistantResponse: a status object
\* ({status: 'complete'}), thread ids (one holding a line break) and a
\* message object
Statuses == {JObj("s", <<"c">>)}
ThreadIds == {JStr(<<"t">>), JStr(<<NL>>)}
AssistantMessages == {JObj("i", <<"m">>)}

\* lines of other writers: an unknown prefix, a payload that is not JSON, a
\* line without a colon, and a well-formed thread id line
ForeignLines ==
    { [chunk |-> <<"9", ":", Q, "t", Q, NL>>, event |-> NoEvent],
      [chunk |-> <<"4", ":", Q, "t", NL>>, event |-> NoEvent],
      [chunk |-> <<"4", NL>>, event |-> NoEvent],
      [chunk |-> <<"4", ":", Q, "t", Q, NL>>,
       event |-> [type |-> "4", value |-> JStr(<<"t">>)]] }

RECURSIVE concat(_)
concat(chunks) == IF chunks = <<>> THEN <<>> ELSE Head(chunks) \o concat(Tail(chunks))

\* all the characters put on the wire so far
wire == concat([i \in DOMAIN produced |-> produced[i].chunk])

Enqueue(by, event, bytes) ==
    /\ Len(produced) < MaxChunks
    /\ produced' = Append(produced, [by |-> by, event |-> event, chunk |-> bytes])
    /\ UNCHANGED <<delivered, events, chunk>>
    /\ UNCHANGED <<cellVars, timerVars, call, chatVars, renderVars, adapterVars>>

sendStatus(status) ==
    Enqueue("sendStatus", [type |-> "3", value |-> status], encodeStatus(status))

sendThreadId(threadId) ==
    Enqueue("sendThreadId", [type |-> "4", value |-> threadId], encodeThreadId(threadId))

sendMessage(message) ==
    Enqueue("sendMessage", [type |-> "0", value |-> message], encodeMessage(message))

ForeignLine(line) == Enqueue("foreign", line.event, line.chunk)

\* the transport hands the next n characters to the decoder
Deliver(n) ==
    /\ n \in 1..(Len(wire) - delivered)
    /\ chunk' = SubSeq(wire, delivered + 1, delivered + n)
    /\ events' = events \o decodeChunk(chunk')
    /\ delivered' = delivered + n
    /\ UNCHANGED produced
    /\ UNCHANGED <<cellVars, timerVars, call, chatVars, renderVars, adapterVars>>

\* one cell, never written to, beside the stream
InitCodec ==
    /\ Init
    /\ kind = "ui"
    /\ ~dev
    /\ currentValue = undefined

NextCodec ==
    \/ \E status \in Statuses : sendStatus(status)
    \/ \E threadId \in ThreadIds : sendThreadId(threadId)
    \/ \E message \in AssistantMessages : sendMessage(message)
    \/ \E line \in ForeignLines : ForeignLine(line)
    \/ \E n \in 1..(MaxChunks * 14) : Deliver(n)

SpecCodec == InitCodec /\ [][NextCodec]_vars

\* how many characters the first i chunks hold
Offset(i) == Len(concat([k \in 1..i |-> produced[k].chunk]))

\* the events of the chunks i+1 .. j, as their writers meant them
Expected(i, j) ==
    SelectSeq([k \in 1..(j - i) |-> produced[i + k].event], LAMBDA e : e # NoEvent)

Encoded == {i \in DOMAIN produced : produced[i].by # "foreign"}

\* the non-empty lines of a text
Lines(text) == SelectSeq(split(text, NL), LAMBDA line : line # <<>>)

\* C12: once the whole stream is delivered, in whatever chunks, the decoder
\* has returned the events it returns for the stream in one chunk.
C12_ChunkBoundaryIndependence ==
    delivered = Len(wire) => events = decodeChunk(wire)

\* C13: a delivered chunk made of whole lines adds exactly the events of its
\* well-formed lines, in wire order, whatever unknown-prefix or malformed
\* lines stand between them and whatever was delivered before; lines
\* without an event add nothing.
C13_BadLinesAreDroppedGoodLinesDecoded ==
    [][\A i, j \in 0..Len(produced) :
         (i < j /\ delivered = Offset(i) /\ delivered' = Offset(j))
            => events' = events \o Expected(i, j)]_vars

C13_Witness ==
    /\ Len(produced) = 2
    /\ produced[1].by = "foreign" /\ produced[1].event = NoEvent
    /\ produced[2].by = "foreign" /\ produced[2].event # NoEvent
    /\ chunk = wire
    /\ events = <<produced[2].event>>

\* C14: the bytes AssistantResponse enqueues for a status, a thread id or a
\* message decode to exactly one event, of the kind sent and with the
\* payload sent.
C14_DecodeOfEncodeIsTheEvent ==
    \A i \in Encoded : decodeChunk(produced[i].chunk) = <<produced[i].event>>

C14_Witness ==
    /\ Len(produced) = 1
    /\ produced[1].by = "sendMessage"
    /\ chunk = produced[1].chunk
    /\ events = <<[type |-> "0", value |-> JObj("i", <<"m">>)]>>

TypeOf(by) ==
    CASE by = "sendMessage" -> "assistant_message"
      [] by = "sendStatus" -> "status"
      [] by = "sendThreadId" -> "thread_id"

\* C15 as stated: what the encoder enqueues is <prefix>:<jsonPayload> and
\* one line terminator.
C15_PrefixColonJsonOneTerminator ==
    \A i \in Encoded :
        produced[i].chunk =
            <<StreamStringPrefixes[TypeOf(produced[i].by)], ":">>
                \o JSONstringify(produced[i].event.value) \o <<NL>>

\* C15 (amended): what the encoder enqueues is <prefix>, a colon, a space,
\* the JSON payload and two line terminators: one non-empty line followed by
\* an empty one.  The payload holds no line terminator, and the prefix is 0
\* for a message, 3 for a status and 4 for a thread id.
C15_PrefixColonSpaceJsonTwoTerminators ==
    \A i \in Encoded :
        LET payload == JSONstringify(produced[i].event.value)
            type == TypeOf(produced[i].by)
        IN  /\ produced[i].chunk =
                  <<StreamStringPrefixes[type], ":", " ">> \o payload \o <<NL, NL>>
            /\ \A k \in DOMAIN payload : payload[k] # NL
            /\ Len(Lines(produced[i].chunk)) = 1
            /\ split(produced[i].chunk, NL)[2] = <<>>
            /\ isStreamStringEqualToType(type, produced[i].chunk)
            /\ StreamStringPrefixes[type] =
                  (CASE produced[i].by = "sendMessage" -> "0"
                     [] produced[i].by = "sendStatus" -> "3"
                     [] produced[i].by = "sendThreadId" -> "4")

C15_Witness ==
    /\ Len(produced) = 2
    /\ produced[1].by = "sendThreadId" /\ produced[1].event.value = JStr(<<NL>>)
    /\ produced[2].by = "sendStatus"
    /\ delivered = Len(wire)

-----------------------------------------------------------------------------
\* The useChat hook of src/unnamed/part_000: the message list, the request
\* cycles started by triggerRequest and the automatic roundtrips.

\* how many times triggerRequest is called in a behaviour
MaxCycles == 3

\* after how many calls of triggerRequest the caller makes no further request
MaxRequests == 2

\* how many request cycles are in flight at a time
MaxInFlight == 2

\* a tool invocation has a result field only once a result is attached
ToolCall(toolCallId) == [toolCallId |-> toolCallId, toolName |-> "tool"]
UserMessage == [role |-> "user", content |-> <<"hi">>, toolInvocations |-> <<>>]
AssistantMessage(text, toolInvocations) ==
    [role |-> "assistant", content |-> text, toolInvocations |-> toolInvocations]

\* the text deltas of a response, in order
TextDeltas == <<"Hel", "lo">>

\* the conversation the hook is mounted with (initialMessages): none, or one
\* that ends with an unanswered tool call
InitialMessages ==
    {<<>>, <<UserMessage, AssistantMessage(<<>>, <<ToolCall("t1")>>)>>}

RoundtripSettings == {0, 1}
ToolCallIds == {"t1", "t2"}

isAssistantMessageWithCompletedToolCalls(message) ==
    /\ message.role = "assistant"
    /\ Len(message.toolInvocations) > 0
    /\ \A i \in DOMAIN message.toolInvocations :
          "result" \in DOMAIN message.toolInvocations[i]

RECURSIVE countTrailingAssistantMessages(_)
countTrailingAssistantMessages(list) ==
    IF list # <<>> /\ list[Len(list)].role = "assistant"
    THEN 1 + countTrailingAssistantMessages(SubSeq(list, 1, Len(list) - 1))
    ELSE 0

\* mutant of shouldAutoSubmit: the trailing assistant messages are not counted
shouldAutoSubmit_Uncounted(list) ==
    /\ list # <<>>
    /\ maxRoundtrips > 0
    /\ isAssistantMessageWithCompletedToolCalls(list[Len(list)])

\* the condition of the automatic submit at the end of triggerRequest
shouldAutoSubmit(list) ==
    /\ list # <<>>
    /\ maxRoundtrips > 0
    /\ isAssistantMessageWithCompletedToolCalls(list[Len(list)])
    /\ countTrailingAssistantMessages(list) <= maxRoundtrips

InFlight == {c \in DOMAIN cycles : cycles[c].pc = "streaming"}

\* of a cycle that ended, only how it ended is kept
Ended(cycle, outcome) ==
    [pc |-> outcome, by |-> "", request |-> <<>>, previousMessages |-> <<>>,
     before |-> <<>>, merged |-> <<>>, existingData |-> NoData]

\* triggerRequest up to its await, getStreamedResponse up to its first await
\* included: cs are the cycles so far, before is the list in the cache when
\* triggerRequest is called, existing the streamData of its closure
triggerRequest(chatRequest, by, before, cs, existing) ==
    /\ Len(cs) < MaxCycles
    /\ Cardinality({c \in DOMAIN cs : cs[c].pc = "streaming"}) < MaxInFlight
    /\ isLoading' = TRUE
    /\ chatError' = "undefined"
    /\ abortControllerRef' = Len(cs) + 1
    /\ cycles' = Append(cs, [pc |-> "streaming", by |-> by, request |-> chatRequest,
                             previousMessages |-> messagesRef, before |-> before,
                             merged |-> <<>>, existingData |-> existing])
    /\ messages' = chatRequest

NotChat == <<cellVars, timerVars, call, codecVars, renderVars, adapterVars>>

\* an event handler runs after the effects of the last render
Rendered == messagesRef = messages

\* the caller still makes requests
MayRequest == Len(cycles) < MaxRequests

append ==
    /\ Rendered
    /\ MayRequest
    /\ triggerRequest(Append(messagesRef, UserMessage), "append", messages, cycles,
                      existingData)
    /\ roundtrips' = 0
    /\ UNCHANGED <<api, maxRoundtrips, messagesRef, aborted, NotChat, dataVars>>

\* mutant of reload: the last assistant message stays in the request
reload_KeepsLast ==
    /\ Rendered
    /\ MayRequest
    /\ messagesRef # <<>>
    /\ triggerRequest(messagesRef, "reload", messages, cycles, existingData)
    /\ roundtrips' = 0
    /\ UNCHANGED <<api, maxRoundtrips, messagesRef, aborted, NotChat, dataVars>>

reload ==
    /\ Rendered
    /\ MayRequest
    /\ messagesRef # <<>>
    /\ triggerRequest(IF messagesRef[Len(messagesRef)].role = "assistant"
                      THEN SubSeq(messagesRef, 1, Len(messagesRef) - 1)
                      ELSE messagesRef,
                      "reload", messages, cycles, existingData)
    /\ roundtrips' = 0
    /\ UNCHANGED <<api, maxRoundtrips, messagesRef, aborted, NotChat, dataVars>>

stop ==
    /\ abortControllerRef # 0
    /\ aborted' = aborted \cup {abortControllerRef}
    /\ abortControllerRef' = 0
    /\ UNCHANGED <<api, maxRoundtrips, messages, messagesRef, isLoading, chatError,
                   cycles, roundtrips, NotChat, dataVars>>

setMessages(list) ==
    /\ Rendered
    /\ messages' = list
    /\ messagesRef' = list
    /\ UNCHANGED <<api, maxRoundtrips, isLoading, chatError, abortControllerRef,
                   aborted, cycles, roundtrips, NotChat, dataVars>>

\* mutant of withToolResult: the invocation is rebuilt from id and result
withToolResult_Rebuilt(list, toolCallId, result) ==
    [index \in DOMAIN list |->
        IF index = Len(list) /\ list[index].role = "assistant"
        THEN [list[index] EXCEPT !.toolInvocations =
                [i \in DOMAIN @ |->
                    IF @[i].toolCallId = toolCallId
                    THEN [toolCallId |-> toolCallId, result |-> result]
                    ELSE @[i]]]
        ELSE list[index]]

\* the list experimental_addToolResult builds from messagesRef.current;
\* {...toolInvocation, result} keeps every field but result
withToolResult(list, toolCallId, result) ==
    [index \in DOMAIN list |->
        IF index = Len(list) /\ list[index].role = "assistant"
        THEN [list[index] EXCEPT !.toolInvocations =
                [i \in DOMAIN @ |->
                    IF @[i].toolCallId = toolCallId
                    THEN [result |-> result] @@ @[i]
                    ELSE @[i]]]
        ELSE list[index]]

experimental_addToolResult(toolCallId, result) ==
    LET updatedMessages == withToolResult(messagesRef, toolCallId, result)
    IN  /\ Rendered
        /\ messagesRef # <<>>
        /\ IF isAssistantMessageWithCompletedToolCalls(updatedMessages[Len(updatedMessages)])
           THEN /\ MayRequest
                /\ triggerRequest(updatedMessages, "addToolResult", updatedMessages, cycles,
                                  existingData)
                /\ roundtrips' = 0
           ELSE /\ messages' = updatedMessages
                /\ UNCHANGED <<isLoading, chatError, abortControllerRef, cycles, roundtrips>>
        /\ UNCHANGED <<api, maxRoundtrips, messagesRef, aborted, NotChat, dataVars>>

\* the effect that copies the rendered list into the ref
SyncRef ==
    /\ messagesRef # messages
    /\ messagesRef' = messages
    /\ UNCHANGED <<api, maxRoundtrips, messages, isLoading, chatError,
                   abortControllerRef, aborted, cycles, roundtrips, NotChat, dataVars>>

\* what the response can turn the merged messages into next: the text grows
\* by one delta, or (endpoint only) a message with a tool call appears
nextMerged(merged) ==
    IF merged = <<>>
    THEN {<<AssistantMessage(SubSeq(TextDeltas, 1, 1), <<>>)>>}
         \cup (IF api = "string"
               THEN {<<AssistantMessage(<<>>, <<ToolCall("t1")>>)>>} ELSE {})
    ELSE IF /\ merged[1].toolInvocations = <<>>
            /\ Len(merged[1].content) < Len(TextDeltas)
    THEN {<<AssistantMessage(SubSeq(TextDeltas, 1, Len(merged[1].content) + 1), <<>>)>>}
    ELSE {}

\* an abort ends the fetch of an endpoint; a server action takes no signal
Cancelled(c) == api = "string" /\ c \in aborted

\* mutant of onUpdate: the merged messages replace the list
onUpdate_DropsRequest(c, data) ==
    /\ c \in InFlight
    /\ ~Cancelled(c)
    /\ \E merged \in nextMerged(cycles[c].merged) :
          /\ cycles' = [cycles EXCEPT ![c].merged = merged]
          /\ messages' = merged
    /\ streamData' = IF api = "string" THEN Data(cycles[c].existingData.items \o data)
                     ELSE streamData
    /\ UNCHANGED <<api, maxRoundtrips, messagesRef, isLoading, chatError,
                   abortControllerRef, aborted, roundtrips, NotChat,
                   onErrorCalls, existingData, onFinishCalls>>

\* onUpdate of callChatApi with the data of the response so far (<<>> when
\* it has none), or one row read by readRow, which publishes no data
onUpdate(c, data) ==
    /\ c \in InFlight
    /\ ~Cancelled(c)
    /\ \E merged \in nextMerged(cycles[c].merged) :
          /\ cycles' = [cycles EXCEPT ![c].merged = merged]
          /\ messages' = cycles[c].request \o merged
    /\ streamData' = IF api = "string" THEN Data(cycles[c].existingData.items \o data)
                     ELSE streamData
    /\ UNCHANGED <<api, maxRoundtrips, messagesRef, isLoading, chatError,
                   abortControllerRef, aborted, roundtrips, NotChat,
                   onErrorCalls, existingData, onFinishCalls>>

\* the rest of triggerRequest once the response ended, well or with a fault:
\* the rollback of a failed cycle, the catch and finally blocks and the
\* automatic submit, which runs before any effect can
\* mutant of errorAfter: the error is swallowed
errorAfter_Swallowed(outcome) == chatError

\* the error state after the catch block
errorAfter(outcome) == IF outcome = "failed" THEN "Error" ELSE chatError

\* the message the response ends with: the last one merged, or the message
\* with the empty content the response started from
Finalized(merged) ==
    IF merged = <<>> THEN AssistantMessage(<<>>, <<>>) ELSE merged[Len(merged)]

\* mutant of onFinishAfter: onFinish is called for a failed cycle too
onFinishAfter_AlsoOnFailure(c, outcome) ==
    Append(onFinishCalls, Finalized(cycles[c].merged))

\* the calls of onFinish once the response ended
onFinishAfter(c, outcome) ==
    IF outcome = "succeeded"
    THEN Append(onFinishCalls, Finalized(cycles[c].merged))
    ELSE onFinishCalls

Finish(c, outcome) ==
    LET cache == IF outcome = "failed" THEN cycles[c].previousMessages ELSE messages
        cs == [cycles EXCEPT ![c] = Ended(@, outcome)]
    IN  /\ c \in InFlight
        /\ ~Cancelled(c)
        /\ (api = "action" /\ outcome = "succeeded") => cycles[c].merged # <<>>
        /\ onFinishCalls' = onFinishAfter(c, outcome)
        /\ IF shouldAutoSubmit(messagesRef)
           THEN /\ triggerRequest(messagesRef, "auto", cache, cs, cycles[c].existingData)
                /\ roundtrips' = roundtrips + 1
           ELSE /\ messages' = cache
                /\ isLoading' = FALSE
                /\ chatError' = errorAfter(outcome)
                /\ abortControllerRef' = IF outcome = "failed" THEN abortControllerRef ELSE 0
                /\ cycles' = cs
                /\ UNCHANGED roundtrips
        /\ aborted' = aborted \ {c}
        /\ onErrorCalls' = IF outcome = "failed" THEN onErrorCalls + 1 ELSE onErrorCalls
        /\ UNCHANGED <<api, maxRoundtrips, messagesRef, NotChat, streamData, existingData>>

\* mutant of AbortError: the abort restores the snapshot as a fault does
AbortError_RollsBack(c) ==
    /\ c \in InFlight
    /\ Cancelled(c)
    /\ cycles' = [cycles EXCEPT ![c] = Ended(@, "aborted")]
    /\ abortControllerRef' = 0
    /\ isLoading' = FALSE
    /\ aborted' = aborted \ {c}
    /\ messages' = cycles[c].previousMessages
    /\ UNCHANGED <<api, maxRoundtrips, messagesRef, chatError,
                   roundtrips, NotChat, dataVars>>

\* mutant of AbortError: the abort is reported as an error
AbortError_ReportsError(c) ==
    /\ c \in InFlight
    /\ Cancelled(c)
    /\ cycles' = [cycles EXCEPT ![c] = Ended(@, "aborted")]
    /\ abortControllerRef' = 0
    /\ isLoading' = FALSE
    /\ aborted' = aborted \ {c}
    /\ chatError' = "Error"
    /\ UNCHANGED <<api, maxRoundtrips, messages, messagesRef,
                   roundtrips, NotChat, dataVars>>

\* the fetch of an aborted cycle rejects with an AbortError, triggerRequest
\* returns null from its catch block
AbortError(c) ==
    /\ c \in InFlight
    /\ Cancelled(c)
    /\ cycles' = [cycles EXCEPT ![c] = Ended(@, "aborted")]
    /\ abortControllerRef' = 0
    /\ isLoading' = FALSE
    /\ aborted' = aborted \ {c}
    /\ UNCHANGED <<api, maxRoundtrips, messages, messagesRef, chatError,
                   roundtrips, NotChat, dataVars>>

\* the hook is mounted on an endpoint or on a server action, with a maximum
\* of automatic roundtrips and with initial messages; beside it is one cell,
\* never written to
InitChat ==
    /\ InitCell
    /\ kind = "ui"
    /\ ~dev
    /\ currentValue = undefined
    /\ CodecIdle
    /\ RenderIdle
    /\ AdapterIdle
    /\ api \in {"string", "action"}
    /\ maxRoundtrips \in RoundtripSettings
    /\ messages \in InitialMessages
    /\ messagesRef = messages
    /\ isLoading = FALSE
    /\ chatError = "undefined"
    /\ abortControllerRef = 0
    /\ aborted = {}
    /\ cycles = <<>>
    /\ roundtrips = 0
    /\ onErrorCalls = 0
    /\ onFinishCalls = <<>>
    /\ streamData = NoData
    /\ existingData = NoData

NextChat ==
    \/ append
    \/ reload
    \/ stop
    \/ setMessages(<<>>)
    \/ \E toolCallId \in ToolCallIds : experimental_addToolResult(toolCallId, "r")
    \/ SyncRef
    \/ \E c \in 1..MaxCycles : onUpdate(c, <<>>)
    \/ \E c \in 1..MaxCycles : Finish(c, "succeeded")
    \/ \E c \in 1..MaxCycles : Finish(c, "failed")
    \/ \E c \in 1..MaxCycles : AbortError(c)

SpecChat == InitChat /\ [][NextChat]_vars

\* the lists experimental_addToolResult is called on: none, lists ending
\* with a user message or with an assistant message without tool calls, and
\* lists ending with two tool calls, none or one of them answered
ToolMessages ==
    {<<>>,
     <<UserMessage>>,
     <<UserMessage, AssistantMessage(<<"Hel", "lo">>, <<>>)>>,
     <<UserMessage, AssistantMessage(<<>>, <<ToolCall("t1"), ToolCall("t2")>>)>>,
     <<UserMessage, AssistantMessage(<<>>, <<[result |-> "old"] @@ ToolCall("t1"),
                                            ToolCall("t2")>>)>>}

\* the results a tool call is answered with
ToolResults == {"r", "old"}

\* the hook is mounted on an endpoint with one of these lists
InitTools ==
    /\ InitCell
    /\ kind = "ui"
    /\ ~dev
    /\ currentValue = undefined
    /\ CodecIdle
    /\ RenderIdle
    /\ AdapterIdle
    /\ api = "string"
    /\ maxRoundtrips \in RoundtripSettings
    /\ messages \in ToolMessages
    /\ messagesRef = messages
    /\ isLoading = FALSE
    /\ chatError = "undefined"
    /\ abortControllerRef = 0
    /\ aborted = {}
    /\ cycles = <<>>
    /\ roundtrips = 0
    /\ onErrorCalls = 0
    /\ onFinishCalls = <<>>
    /\ streamData = NoData
    /\ existingData = NoData

NextTools ==
    \/ \E toolCallId \in ToolCallIds, result \in ToolResults :
          experimental_addToolResult(toolCallId, result)
    \/ SyncRef
    \/ \E c \in 1..MaxCycles : onUpdate(c, <<>>)
    \/ \E c \in 1..MaxCycles : Finish(c, "succeeded")
    \/ \E c \in 1..MaxCycles : Finish(c, "failed")

SpecTools == InitTools /\ [][NextTools]_vars

\* the component that uses the hook is unmounted and mounted again while no
\* cycle is in flight: the refs and the callbacks are created anew, the SWR
\* cache is kept
Remount ==
    /\ InFlight = {}
    /\ existingData # streamData
    /\ existingData' = streamData
    /\ messagesRef' = messages
    /\ abortControllerRef' = 0
    /\ UNCHANGED <<api, maxRoundtrips, messages, isLoading, chatError, aborted,
                   cycles, roundtrips, onErrorCalls, onFinishCalls, streamData, NotChat>>

\* the hook on an endpoint whose responses carry data: the items of cycle c
\* are named c
InitData ==
    /\ InitChat
    /\ api = "string"
    /\ maxRoundtrips = 0

NextData ==
    \/ append
    \/ SyncRef
    \/ stop
    \/ \E c \in 1..MaxCycles : onUpdate(c, <<>>)
    \/ \E c \in 1..MaxCycles : onUpdate(c, <<c>>)
    \/ \E c \in 1..MaxCycles : Finish(c, "succeeded")
    \/ \E c \in 1..MaxCycles : Finish(c, "failed")
    \/ \E c \in 1..MaxCycles : AbortError(c)
    \/ Remount

SpecData == InitData /\ [][NextData]_vars

(***************************************************************************)
(* Part 5: packages/core/rsc/streamable.tsx, render().  A string is the    *)
(* sequence of its characters.  The provider's response is a sequence of   *)
(* text chunks, followed by a function call, by a call of two tools or by  *)
(* nothing; it is fixed when render() is called.  The stream calls onText  *)
(* with each chunk in turn, then the callback of the call, then onFinal.   *)
(* A UI cell of render() is the record of a StreamableUIContext: the node  *)
(* of a render is its number among the renders started for the cell.  A    *)
(* renderer returns a node (mode "value") or a promise of one (mode        *)
(* "promise"), which settles in a later step.                              *)
(***************************************************************************)
\* largest number of text chunks in one response
MaxDeltas == 2

\* the chunks a response is made of: the two deltas of "Hello", and the
\* empty chunk
Chunks == {<<>>, <<"H", "e", "l">>, <<"l", "o">>}

Responses == UNION {[1..n -> Chunks] : n \in 0..MaxDeltas}

\* options.functions and options.tools: are they given
Options == [functions : BOOLEAN, tools : BOOLEAN]

\* what a renderer returns
Modes == {"value", "promise"}

\* what the text renderer is called with by onText and by onFinal
TextArgs(soFar, delta) == [content |-> soFar, done |-> FALSE, delta |-> delta]
FinalArgs(whole) == [content |-> whole, done |-> TRUE]

\* createStreamableUI(initial) in a context
NewCell == [NoCell EXCEPT !.created = TRUE]

\* context.ui.update(node): throws on a closed cell
uiUpdate(cell, node) ==
    IF cell.closed THEN [cell EXCEPT !.threw = TRUE] ELSE [cell EXCEPT !.value = node]

\* context.ui.done(): throws on a closed cell
uiDone(cell) ==
    IF cell.closed THEN [cell EXCEPT !.threw = TRUE, !.awaiting = FALSE]
    ELSE [cell EXCEPT !.closed = TRUE, !.doneCalls = @ + 1, !.awaiting = FALSE]

\* handleRender(args, renderer, context) up to its first await
handleRender(cell, mode) ==
    LET node == cell.started + 1
    IN  IF mode = "value"
        THEN uiUpdate([cell EXCEPT !.started = node], node)
        ELSE [cell EXCEPT !.started = node, !.pending = @ \cup {node}]

\* mutant of finishedPending: finished is the promise of the last render
finishedPending_LastOnly(cell) == cell.pending \cap {cell.upTo}

\* the renders the `finished` read by onFinal still waits for: the chain of
\* handleRender holds every render started for the context until then
finishedPending(cell) == {node \in cell.pending : node <= cell.upTo}

\* mutant of render: the request is sent before the options are checked
render_RequestsFirst ==
    /\ rendered = "no"
    /\ cells' = [cells EXCEPT !["composed"] = NewCell, !["text"] = NewCell]
    /\ rendered' = IF options.functions /\ options.tools THEN "thrown" ELSE "returned"
    /\ requested' = TRUE
    /\ UNCHANGED <<stream, pos, content, final, textCalls, composed, options, toolEvent>>
    /\ UNCHANGED <<cellVars, timerVars, call, codecVars, chatVars, adapterVars>>

\* render(options) up to its return: the contexts are created, both kinds of
\* declarations throw, otherwise the request is made and the UI returned
render ==
    /\ rendered = "no"
    /\ cells' = [cells EXCEPT !["composed"] = NewCell, !["text"] = NewCell]
    /\ rendered' = IF options.functions /\ options.tools THEN "thrown" ELSE "returned"
    /\ requested' = ~(options.functions /\ options.tools)
    /\ UNCHANGED <<stream, pos, content, final, textCalls, composed, options, toolEvent>>
    /\ UNCHANGED <<cellVars, timerVars, call, codecVars, chatVars, adapterVars>>

\* the stream still has a chunk to call onText with
Delivering ==
    /\ requested
    /\ ~final
    /\ pos < Len(stream)

\* the stream has called onText with every chunk and not yet the callback of
\* the function call or of the tool calls
Calling(event) ==
    /\ requested
    /\ ~final
    /\ pos = Len(stream)
    /\ toolEvent = event

\* the stream has called every other callback and not yet onFinal
Drained ==
    /\ requested
    /\ ~final
    /\ pos = Len(stream)
    /\ toolEvent \in {"none", "handled"}

\* mutant of onText: the chunk replaces the content
onText_Replaces(textChunk) ==
    /\ Delivering
    /\ textChunk = stream[pos + 1]
    /\ pos' = pos + 1
    /\ content' = textChunk
    /\ textCalls' = Append(textCalls, TextArgs(content', textChunk))
    /\ \E textMode \in Modes, composeMode \in Modes :
          cells' = [cells EXCEPT
                      !["text"] = handleRender(@, textMode),
                      !["composed"] = IF content' = textChunk
                                      THEN handleRender(@, composeMode) ELSE @]
    /\ composed' = IF content' = textChunk THEN composed + 1 ELSE composed
    /\ UNCHANGED <<stream, final, options, rendered, requested, toolEvent>>
    /\ UNCHANGED <<cellVars, timerVars, call, codecVars, chatVars, adapterVars>>

\* onText(chunk)
onText(textChunk) ==
    /\ Delivering
    /\ textChunk = stream[pos + 1]
    /\ pos' = pos + 1
    /\ content' = content \o textChunk
    /\ textCalls' = Append(textCalls, TextArgs(content', textChunk))
    /\ \E textMode \in Modes, composeMode \in Modes :
          cells' = [cells EXCEPT
                      !["text"] = handleRender(@, textMode),
                      !["composed"] = IF content' = textChunk
                                      THEN handleRender(@, composeMode) ELSE @]
    /\ composed' = IF content' = textChunk THEN composed + 1 ELSE composed
    /\ UNCHANGED <<stream, final, options, rendered, requested, toolEvent>>
    /\ UNCHANGED <<cellVars, timerVars, call, codecVars, chatVars, adapterVars>>

\* experimental_onFunctionCall(functionCallPayload), the function configured
experimental_onFunctionCall ==
    /\ Calling("function")
    /\ toolEvent' = "handled"
    /\ \E functionMode \in Modes, composeMode \in Modes :
          cells' = [cells EXCEPT
                      !["function"] = handleRender(NewCell, functionMode),
                      !["composed"] = handleRender(@, composeMode)]
    /\ UNCHANGED <<stream, pos, content, final, textCalls, composed, options,
                   rendered, requested>>
    /\ UNCHANGED <<cellVars, timerVars, call, codecVars, chatVars, adapterVars>>

\* experimental_onToolCall(toolCallPayload), two tools, both configured
experimental_onToolCall ==
    /\ Calling("tools")
    /\ toolEvent' = "handled"
    /\ \E firstMode \in Modes, secondMode \in Modes,
          composeMode \in Modes, composeAgain \in Modes :
          cells' = [cells EXCEPT
                      !["tool1"] = handleRender(NewCell, firstMode),
                      !["tool2"] = handleRender(NewCell, secondMode),
                      !["composed"] = handleRender(handleRender(@, composeMode),
                                                   composeAgain)]
    /\ UNCHANGED <<stream, pos, content, final, textCalls, composed, options,
                   rendered, requested>>
    /\ UNCHANGED <<cellVars, timerVars, call, codecVars, chatVars, adapterVars>>

\* onFinal() up to its await: the last render of the text, and every context
\* that exists is awaited with the `finished` it has now
onFinal ==
    /\ Drained
    /\ final' = TRUE
    /\ textCalls' = Append(textCalls, FinalArgs(content))
    /\ \E textMode \in Modes :
          cells' = [ctx \in Contexts |->
                      LET cell == IF ctx = "text" THEN handleRender(cells[ctx], textMode)
                                  ELSE cells[ctx]
                      IN  IF cell.created
                          THEN [cell EXCEPT !.awaiting = TRUE, !.upTo = cell.started]
                          ELSE cell]
    /\ UNCHANGED <<stream, pos, content, composed, options, rendered, requested,
                   toolEvent>>
    /\ UNCHANGED <<cellVars, timerVars, call, codecVars, chatVars, adapterVars>>

\* the promise a renderer returned is fulfilled: handleRender after its await
Settle(ctx, node) ==
    /\ node \in cells[ctx].pending
    /\ cells' = [cells EXCEPT ![ctx] = uiUpdate([@ EXCEPT !.pending = @ \ {node}], node)]
    /\ UNCHANGED <<stream, pos, content, final, textCalls, composed, options,
                   rendered, requested, toolEvent>>
    /\ UNCHANGED <<cellVars, timerVars, call, codecVars, chatVars, adapterVars>>

\* onFinal after `await finished` of one context: ui.done()
Done(ctx) ==
    /\ cells[ctx].awaiting
    /\ finishedPending(cells[ctx]) = {}
    /\ cells' = [cells EXCEPT ![ctx] = uiDone(@)]
    /\ UNCHANGED <<stream, pos, content, final, textCalls, composed, options,
                   rendered, requested, toolEvent>>
    /\ UNCHANGED <<cellVars, timerVars, call, codecVars, chatVars, adapterVars>>

\* render() is about to be called with some options on some response;
\* beside it is one cell of part 1, never written to
InitRender ==
    /\ InitCell
    /\ kind = "ui"
    /\ ~dev
    /\ currentValue = undefined
    /\ CodecIdle
    /\ ChatIdle
    /\ AdapterIdle
    /\ options \in Options
    /\ stream \in Responses
    /\ toolEvent \in {"none"}
                     \cup (IF options.functions /\ ~options.tools THEN {"function"} ELSE {})
                     \cup (IF options.tools /\ ~options.functions THEN {"tools"} ELSE {})
    /\ rendered = "no"
    /\ requested = FALSE
    /\ pos = 0
    /\ content = <<>>
    /\ final = FALSE
    /\ textCalls = <<>>
    /\ composed = 0
    /\ cells = [ctx \in Contexts |-> NoCell]

NextRender ==
    \/ render
    \/ \E textChunk \in Chunks : onText(textChunk)
    \/ experimental_onFunctionCall
    \/ experimental_onToolCall
    \/ onFinal
    \/ \E ctx \in Contexts, node \in 1..(MaxDeltas + 3) : Settle(ctx, node)
    \/ \E ctx \in Contexts : Done(ctx)

SpecRender == InitRender /\ [][NextRender]_vars

\* every renderer terminates, and a continuation that can run does
SpecRenderFair ==
    /\ SpecRender
    /\ WF_vars(\E ctx \in Contexts, node \in 1..(MaxDeltas + 3) : Settle(ctx, node))
    /\ WF_vars(\E ctx \in Contexts : Done(ctx))

(***************************************************************************)
(* Part 6: the provider adapters.  doStream pipes the provider's chunks    *)
(* through a TransformStream; each call of transform is one action, the    *)
(* parts it gives to controller.enqueue are appended to `enqueued`.  A     *)
(* chunk holds no delta, a text content, or one tool call; the function    *)
(* object of a tool call is always there, and the provider names a call    *)
(* (id) in every delta of it.                                              *)
(***************************************************************************)
\* largest number of chunks in one response
MaxTransforms == 3

\* the argument text {"a":"b"} of a tool call, and the two pieces it is
\* streamed in
ArgsText == <<"{", Q, "a", Q, ":", Q, "b", Q, "}">>
ArgsHead == SubSeq(ArgsText, 1, 5)
ArgsTail == SubSeq(ArgsText, 6, 9)

\* the id the provider gives the tool call of an index
IdOf(index) == IF index = 0 THEN Str(<<"c", "0">>) ELSE Str(<<"c", "1">>)

\* the tool call deltas of a chunk (delta.tool_calls[i])
ToolCallDeltas ==
    {[index |-> index, id |-> IdOf(index), name |-> name, arguments |-> arguments] :
        index \in ToolCallIndexes,
        name \in {undefined, Str(<<"f">>)},
        arguments \in {undefined, Str(<<>>), Str(ArgsHead), Str(ArgsTail),
                       Str(ArgsText)}}

\* a chunk: no delta, a text content, or one tool call delta
NoDelta == [kind |-> "none"]
ContentChunk == [kind |-> "content", content |-> <<"h", "i">>]
ToolCallChunk(toolCallDelta) == [kind |-> "tool_calls", toolCall |-> toolCallDelta]
OpenAIChunks ==
    {NoDelta, ContentChunk} \cup {ToolCallChunk(d) : d \in ToolCallDeltas}

\* tryParseJSON: the parsed value, or undefined for a text JSON.parse rejects
tryParseJSON(text) ==
    IF JSONparse(text) = SyntaxError THEN undefined ELSE JSONparse(text)

\* nanoid(): some id
NanoIds == {Str(<<"n", "1">>), Str(<<"n", "2">>)}

\* a += b of JavaScript on an optional string a and a string b
plusAssign(a, b) ==
    IF a = undefined THEN Str(<<"undefined">> \o b.chars) ELSE Str(a.chars \o b.chars)

\* the stored tool call after the delta is merged into it
mergeToolCall(toolCall, toolCallDelta) ==
    IF toolCallDelta.arguments # undefined
    THEN [toolCall EXCEPT !.arguments = plusAssign(@, toolCallDelta.arguments)]
    ELSE toolCall

\* what the loop body of the regular mode enqueues for a delta of a call
\* that is in the list already
toolCallParts(toolCall, nano) ==
    IF toolCall.name = undefined \/ toolCall.arguments = undefined THEN <<>>
    ELSE IF tryParseJSON(toolCall.arguments.chars) = undefined THEN <<>>
    ELSE <<[type |-> "tool-call",
            toolCallId |-> IF toolCall.id = undefined THEN nano ELSE toolCall.id,
            toolName |-> toolCall.name,
            args |-> tryParseJSON(toolCall.arguments.chars)]>>

\* OpenAIChatLanguageModel.doStream, regular mode: transform(chunk, controller)
regularTransform(ck) ==
    /\ ~upstreamClosed
    /\ transformed < MaxTransforms
    /\ transformed' = transformed + 1
    /\ IF ck.kind = "none"
       THEN UNCHANGED <<toolCalls, enqueued>>
       ELSE IF ck.kind = "content"
       THEN /\ enqueued' = Append(enqueued, [type |-> "text-delta",
                                             textDelta |-> ck.content])
            /\ UNCHANGED toolCalls
       ELSE IF toolCalls[ck.toolCall.index] = NoToolCall
       THEN /\ toolCalls' = [toolCalls EXCEPT ![ck.toolCall.index] = ck.toolCall]
            /\ UNCHANGED enqueued
       ELSE LET toolCall == mergeToolCall(toolCalls[ck.toolCall.index], ck.toolCall)
            IN  /\ toolCalls' = [toolCalls EXCEPT ![ck.toolCall.index] = toolCall]
                /\ \E nano \in NanoIds :
                      enqueued' = enqueued \o toolCallParts(toolCall, nano)
    /\ UNCHANGED upstreamClosed
    /\ UNCHANGED <<cellVars, timerVars, call, codecVars, chatVars, renderVars>>

\* the provider's response ends: the TransformStream has no flush
CloseUpstream ==
    /\ ~upstreamClosed
    /\ upstreamClosed' = TRUE
    /\ UNCHANGED <<toolCalls, enqueued, transformed>>
    /\ UNCHANGED <<cellVars, timerVars, call, codecVars, chatVars, renderVars>>

\* doStream is called; beside it is one cell, never written to
InitAdapter ==
    /\ InitCell
    /\ kind = "ui"
    /\ ~dev
    /\ currentValue = undefined
    /\ CodecIdle
    /\ ChatIdle
    /\ RenderIdle
    /\ AdapterIdle

NextOpenAI ==
    \/ \E ck \in OpenAIChunks : regularTransform(ck)
    \/ CloseUpstream

SpecOpenAI == InitAdapter /\ [][NextOpenAI]_vars

\* the chunks of the Mistral response: a parse error, no delta, a text
\* content, or a tool call, which comes in one piece
ErrorChunk == [kind |-> "error"]
MistralChunks ==
    {ErrorChunk, NoDelta, ContentChunk}
    \cup {ToolCallChunk([name |-> Str(<<"f">>), arguments |-> Str(arguments)]) :
            arguments \in {ArgsText, <<>>}}

\* MistralChatLanguageModel.doStream: transform(chunk, controller)
mistralTransform(ck) ==
    /\ ~upstreamClosed
    /\ transformed < MaxTransforms
    /\ transformed' = transformed + 1
    /\ IF ck.kind = "error"
       THEN enqueued' = Append(enqueued, [type |-> "error"])
       ELSE IF ck.kind = "none"
       THEN UNCHANGED enqueued
       ELSE IF ck.kind = "content"
       THEN enqueued' = Append(enqueued, [type |-> "text-delta",
                                         textDelta |-> ck.content])
       ELSE \E first \in NanoIds, second \in NanoIds :
              enqueued' = enqueued \o
                 <<[type |-> "tool-call-delta",
                    toolCallId |-> first,
                    toolName |-> ck.toolCall.name,
                    argsTextDelta |-> ck.toolCall.arguments],
                   [type |-> "tool-call",
                    toolCallType |-> "function",
                    toolCallId |-> second,
                    toolName |-> ck.toolCall.name,
                    args |-> ck.toolCall.arguments]>>
    /\ UNCHANGED <<toolCalls, upstreamClosed>>
    /\ UNCHANGED <<cellVars, timerVars, call, codecVars, chatVars, renderVars>>

NextMistral ==
    \/ \E ck \in MistralChunks : mistralTransform(ck)
    \/ CloseUpstream

SpecMistral == InitAdapter /\ [][NextMistral]_vars

\* cycle c ends in this step, in the given way
Ends(c, outcome) ==
    /\ c \in InFlight
    /\ cycles'[c].pc = outcome

\* this step dispatches a request by the automatic submit
AutoDispatch ==
    /\ Len(cycles') = Len(cycles) + 1
    /\ cycles'[Len(cycles')].by = "auto"

\* how many assistant messages end the list
TrailingAssistants(list) ==
    Cardinality({i \in DOMAIN list : \A j \in i..Len(list) : list[j].role = "assistant"})

\* the newest message of the list is an assistant message whose tool
\* invocations, at least one, all carry a result
NewestAnswered(list) ==
    /\ list # <<>>
    /\ list[Len(list)].role = "assistant"
    /\ list[Len(list)].toolInvocations # <<>>
    /\ \A i \in DOMAIN list[Len(list)].toolInvocations :
          "result" \in DOMAIN list[Len(list)].toolInvocations[i]

\* C16: when a cycle fails, the message list is the list it was when the
\* cycle's request was dispatched.
C16_FailureRestoresListBeforeDispatch ==
    [][\A c \in DOMAIN cycles :
         Ends(c, "failed") => messages' = cycles[c].before]_vars

\* C17: at most one cycle that has not been aborted is in flight.
C17_OneCycleInFlight ==
    Cardinality({c \in InFlight : c \notin aborted}) <= 1

\* C18: the step in which a cycle fails dispatches no request.
C18_NoDispatchAfterFailure ==
    [][\A c \in DOMAIN cycles :
         Ends(c, "failed") => Len(cycles') = Len(cycles)]_vars

\* C19: the automatic dispatches since the caller's last request never
\* outnumber experimental_maxAutomaticRoundtrips.
C19_AtMostMaxAutomaticRoundtrips ==
    roundtrips <= maxRoundtrips

\* C20 as stated: whenever a cycle ends, however it ends, a request with
\* the current list is dispatched automatically iff the newest message is an
\* answered assistant message, the maximum is positive and the trailing
\* assistant messages do not outnumber it.
C20_EveryCycleEndEvaluatesController ==
    [][\A c \in DOMAIN cycles :
         (c \in InFlight /\ cycles'[c].pc # "streaming")
            => (AutoDispatch <=>
                  /\ NewestAnswered(messagesRef)
                  /\ maxRoundtrips > 0
                  /\ TrailingAssistants(messagesRef) <= maxRoundtrips)]_vars

\* C20 (amended): when a cycle ends with success or with a fault, a request
\* is dispatched automatically iff the newest message of messagesRef.current
\* is an answered assistant message, the maximum is positive and the
\* trailing assistant messages do not outnumber it; the request carries that
\* list.  When a cycle ends by an abort, no request is dispatched.
C20_UnabortedCycleEndEvaluatesController ==
    [][\A c \in DOMAIN cycles :
         /\ (Ends(c, "succeeded") \/ Ends(c, "failed"))
               => /\ AutoDispatch <=>
                       /\ NewestAnswered(messagesRef)
                       /\ maxRoundtrips > 0
                       /\ TrailingAssistants(messagesRef) <= maxRoundtrips
                  /\ AutoDispatch =>
                       /\ cycles'[Len(cycles')].request = messagesRef
                       /\ messages' = messagesRef
         /\ Ends(c, "aborted") => Len(cycles') = Len(cycles)]_vars

C20_Witness ==
    /\ maxRoundtrips = 1
    /\ Len(cycles) = 2
    /\ cycles[1].pc = "succeeded"
    /\ cycles[2].pc = "streaming" /\ cycles[2].by = "auto"
    /\ cycles[2].request = messagesRef
    /\ NewestAnswered(messagesRef)

\* this step dispatches a request that no append or reload asked for
HookDispatch ==
    /\ Len(cycles') = Len(cycles) + 1
    /\ cycles'[Len(cycles')].by \in {"auto", "addToolResult"}

\* this step is a call of stop() with a controller to abort
StopCalled ==
    /\ abortControllerRef # 0
    /\ abortControllerRef' = 0
    /\ aborted' = aborted \cup {abortControllerRef}

\* C21: with experimental_maxAutomaticRoundtrips 0 the hook dispatches no
\* request of its own, neither at the end of a cycle nor from
\* experimental_addToolResult.
C21_ZeroDisablesRoundtrips ==
    [][maxRoundtrips = 0 => ~HookDispatch]_vars

\* C22: with maximum 1, the request experimental_addToolResult dispatches
\* when it attaches the result is the only one: when that cycle ends,
\* whatever it returned, nothing more is dispatched.
C22_ExactlyOneRedispatch ==
    [][maxRoundtrips = 1 =>
         \A c \in DOMAIN cycles :
            (c \in InFlight /\ cycles[c].by = "addToolResult" /\ cycles'[c].pc # "streaming")
               => Len(cycles') = Len(cycles)]_vars

\* C23: neither stop() nor the end of the cycle it aborted changes the
\* message list: the optimistic user message and the partial assistant
\* content stay.
C23_CancelKeepsPartialContent ==
    [][(StopCalled \/ \E c \in DOMAIN cycles : Ends(c, "aborted"))
          => messages' = messages]_vars

C23_Witness ==
    /\ Len(cycles) = 1
    /\ cycles[1].pc = "aborted"
    /\ messages = <<UserMessage, AssistantMessage(<<>>, <<ToolCall("t1")>>),
                    UserMessage, AssistantMessage(<<"Hel">>, <<>>)>>

\* C24: when a cycle ends with an AbortError, the error state and the
\* number of onError calls stay as they are, no request is dispatched and
\* the loading flag is false.
C24_AbortIsNeitherSuccessNorFailure ==
    [][\A c \in DOMAIN cycles :
         Ends(c, "aborted")
            => /\ chatError' = chatError
               /\ onErrorCalls' = onErrorCalls
               /\ Len(cycles') = Len(cycles)
               /\ roundtrips' = roundtrips
               /\ isLoading' = FALSE]_vars

C24_Witness ==
    /\ Len(cycles) = 1
    /\ cycles[1].pc = "aborted"
    /\ chatError = "undefined"
    /\ onErrorCalls = 0
    /\ ~isLoading
    /\ maxRoundtrips = 1
    /\ NewestAnswered(messagesRef)

\* this step dispatches a request
Dispatch == Len(cycles') = Len(cycles) + 1

\* C25: whenever one cycle of an endpoint is in flight and not yet aborted,
\* abortControllerRef.current is the controller of that cycle, so that
\* stop() aborts it.
C25_StopReachesCycleInFlight ==
    \A c \in InFlight :
        (api = "string" /\ InFlight = {c} /\ c \notin aborted) => abortControllerRef = c

\* C26: a dispatch sets the message list to the request's messages and
\* records as rollback snapshot the list as it was when triggerRequest was
\* called.
C26_SnapshotIsListBeforeDispatch ==
    [][Dispatch =>
         /\ messages' = cycles'[Len(cycles')].request
         /\ cycles'[Len(cycles')].previousMessages = cycles'[Len(cycles')].before]_vars

C28_LoadingIffCycleInFlight ==
    isLoading <=> InFlight # {}

\* C29: the content is the concatenation of the chunks received so far, in
\* arrival order; the text renderer was called once per chunk with the content
\* up to and including that chunk and with the chunk as delta, and after the
\* end of the stream once more with the whole content and done.
C29_TextDeltasAccumulate ==
    /\ content = concat(SubSeq(stream, 1, pos))
    /\ Len(textCalls) = pos + (IF final THEN 1 ELSE 0)
    /\ \A i \in 1..pos :
          /\ i <= Len(textCalls)
          /\ textCalls[i] = TextArgs(concat(SubSeq(stream, 1, i)), stream[i])
    /\ final => /\ pos = Len(stream)
                /\ Len(textCalls) = pos + 1
                /\ textCalls[pos + 1] = FinalArgs(concat(stream))

C29_Witness ==
    /\ stream = <<<<"H", "e", "l">>, <<"l", "o">>>>
    /\ final
    /\ content = <<"H", "e", "l", "l", "o">>
    /\ textCalls = <<TextArgs(<<"H", "e", "l">>, <<"H", "e", "l">>),
                     TextArgs(<<"H", "e", "l", "l", "o">>, <<"l", "o">>),
                     FinalArgs(<<"H", "e", "l", "l", "o">>)>>

\* C31: render() with both functions and tools has thrown once it was
\* called, has made no request to the provider and has returned no UI; with
\* any other options it does not throw.
C31_BothDeclarationsThrowBeforeRequest ==
    /\ (options.functions /\ options.tools)
         => (rendered \in {"no", "thrown"} /\ ~requested)
    /\ rendered = "thrown" => (options.functions /\ options.tools)
    /\ rendered = "returned" <=> requested

C31_Witness ==
    /\ options.functions
    /\ options.tools
    /\ rendered = "thrown"
    /\ ~requested
    /\ cells["text"].created

\* every cell that exists is closed by one call of done()
AllClosed ==
    \A ctx \in Contexts :
        cells[ctx].created => (cells[ctx].closed /\ cells[ctx].doneCalls = 1)

C34_UpdatesAppliedInStartOrder ==
    \A ctx \in Contexts :
        /\ (cells[ctx].created /\ cells[ctx].pending = {})
             => cells[ctx].value = cells[ctx].started
        /\ (ctx = "text" /\ cells[ctx].closed) => cells[ctx].value = Len(textCalls)

\* C40: onText calls updateComposedUI once per response, with the first
\* chunk: not before a chunk arrived, and once whatever chunks follow.
C40_ComposedOncePerResponse ==
    composed = (IF pos > 0 THEN 1 ELSE 0)

\* cycle c publishes an update in this step
Publishes(c) ==
    /\ c \in InFlight
    /\ cycles'[c].pc = "streaming"
    /\ cycles'[c].merged # cycles[c].merged

\* this step is a call of reload() that dispatches a request
ReloadDispatch ==
    /\ Dispatch
    /\ cycles'[Len(cycles')].by = "reload"

\* C32: a request dispatched by reload() is made on a list that is not empty
\* (on an empty list reload dispatches nothing), and it carries that list
\* without its last message when the last message is from the assistant,
\* the unchanged list otherwise.
C32_ReloadRequestsLastResponseAgain ==
    [][ReloadDispatch =>
         /\ messages # <<>>
         /\ cycles'[Len(cycles')].request =
               IF messages[Len(messages)].role = "assistant"
               THEN SubSeq(messages, 1, Len(messages) - 1)
               ELSE messages]_vars

C32_Witness ==
    /\ Len(cycles) = 1
    /\ cycles[1].pc = "streaming"
    /\ cycles[1].by = "reload"
    /\ cycles[1].before = <<UserMessage, AssistantMessage(<<>>, <<ToolCall("t1")>>)>>
    /\ cycles[1].request = <<UserMessage>>
    /\ messages = <<UserMessage>>

\* this step is a call of experimental_addToolResult that changes the list
\* or dispatches a request
AddToolResultStep ==
    \/ /\ cycles' = cycles
       /\ messagesRef' = messagesRef
       /\ messages' # messages
    \/ /\ Dispatch
       /\ cycles'[Len(cycles')].by = "addToolResult"

\* the invocation after is the invocation before with the result attached
\* and every other field as it was
Answered(before, after, result) ==
    /\ DOMAIN after = DOMAIN before \cup {"result"}
    /\ after.result = result
    /\ \A field \in DOMAIN before \ {"result"} : after[field] = before[field]

\* C37: experimental_addToolResult leaves the length of the list, every
\* message but the last and, of the last, every field but toolInvocations as
\* they were; for some id and result, the invocations of the last message with
\* that id have the result attached and their other fields kept, the others
\* are unchanged; a last message that is not from the assistant, or without
\* an invocation of that id, leaves the list equal.
C37_AddToolResultChangesOnlyThatInvocation ==
    [][AddToolResultStep =>
         /\ Len(messages') = Len(messages)
         /\ \A i \in 1..(Len(messages) - 1) : messages'[i] = messages[i]
         /\ LET last == messages[Len(messages)]
                after == messages'[Len(messages)]
            IN  /\ after.role = last.role
                /\ after.content = last.content
                /\ DOMAIN after.toolInvocations = DOMAIN last.toolInvocations
                /\ last.role # "assistant" => after = last
                /\ \E toolCallId \in ToolCallIds, result \in ToolResults :
                      /\ \A i \in DOMAIN last.toolInvocations :
                            IF last.toolInvocations[i].toolCallId = toolCallId
                            THEN Answered(last.toolInvocations[i],
                                          after.toolInvocations[i], result)
                            ELSE after.toolInvocations[i] = last.toolInvocations[i]
                      /\ (\A i \in DOMAIN last.toolInvocations :
                            last.toolInvocations[i].toolCallId # toolCallId)
                           => messages' = messages]_vars

C37_Witness ==
    /\ cycles = <<>>
    /\ messagesRef = <<UserMessage,
                       AssistantMessage(<<>>, <<ToolCall("t1"), ToolCall("t2")>>)>>
    /\ messages = <<UserMessage,
                    AssistantMessage(<<>>, <<ToolCall("t1"),
                                            [toolCallId |-> "t2", toolName |-> "tool",
                                             result |-> "r"]>>)>>

ToolCallEvents(index) ==
    {i \in DOMAIN enqueued : /\ enqueued[i].type = "tool-call"
                             /\ enqueued[i].toolCallId = IdOf(index)}

\* the tool call of an index is complete: its name is known and its
\* accumulated argument text parses as JSON
Complete(index) ==
    /\ toolCalls[index] # NoToolCall
    /\ toolCalls[index].name # undefined
    /\ toolCalls[index].arguments # undefined
    /\ JSONparse(toolCalls[index].arguments.chars) # SyntaxError

\* C38: no tool call has more than one tool-call event, and once the
\* response has ended every complete tool call has one.
C38_OneToolCallEventPerToolCall ==
    \A index \in ToolCallIndexes :
        /\ Cardinality(ToolCallEvents(index)) <= 1
        /\ (upstreamClosed /\ Complete(index))
             => Cardinality(ToolCallEvents(index)) = 1

\* C39: the tool-call event that follows a tool-call-delta event, emitted
\* for the same tool call, carries the same toolCallId.
C39_DeltaAndCallShareTheId ==
    \A i \in DOMAIN enqueued :
        enqueued[i].type = "tool-call-delta"
          => /\ i + 1 \in DOMAIN enqueued
             /\ enqueued[i + 1].type = "tool-call"
             /\ enqueued[i + 1].toolCallId = enqueued[i].toolCallId

\* C35: the list an update of a cycle publishes is the messages of the
\* cycle's request, unaltered and in order, followed by the assistant
\* messages received so far in the cycle.
C35_UpdateKeepsRequestMessages ==
    [][\A c \in DOMAIN cycles :
         Publishes(c) =>
            /\ Len(messages') = Len(cycles[c].request) + Len(cycles'[c].merged)
            /\ \A i \in DOMAIN cycles[c].request : messages'[i] = cycles[c].request[i]
            /\ \A i \in DOMAIN cycles'[c].merged :
                  /\ messages'[Len(cycles[c].request) + i] = cycles'[c].merged[i]
                  /\ cycles'[c].merged[i].role = "assistant"]_vars

C35_Witness ==
    /\ Len(cycles) = 1
    /\ cycles[1].pc = "streaming"
    /\ cycles[1].request = <<UserMessage>>
    /\ cycles[1].merged = <<AssistantMessage(<<"Hel", "lo">>, <<>>)>>
    /\ messages = <<UserMessage, AssistantMessage(<<"Hel", "lo">>, <<>>)>>

\* C30: the data array a cycle publishes holds items of that cycle only.
C30_PublishedDataIsOfThisCycle ==
    [][\A c \in DOMAIN cycles :
         Publishes(c) => \A i \in DOMAIN streamData'.items : streamData'.items[i] = c]_vars
====
